---- MODULE Spec2Model ----
(***************************************************************************)
(* Verification model of AutoVanityFair.                                   *)
(*                                                                         *)
(*   Spec        SafetyMonitor / RateLimiter, one caller at a time: every  *)
(*               public method is one step (src/core/safety_monitor.py,    *)
(*               src/core/rate_limiter.py).                                *)
(*   SpecThreads the same monitor shared by threads that run LinkedInBot   *)
(*               methods (src/automation/linkedin_bot.py); a monitor       *)
(*               method is a sequence of steps between taking and          *)
(*               releasing _lock.  A RateLimiter method is one step: it    *)
(*               runs under the limiter's own lock.                        *)
(*   SpecStore   the feed_items table under FeedItemCRUD                   *)
(*               (src/database/crud.py, src/database/models.py).           *)
(*   SpecPosts   the posts and comments tables under PostCRUD and          *)
(*               CommentCRUD, the status endpoints and buttons, and the    *)
(*               publish endpoint step by step (api/server.py,             *)
(*               ui/views/posts_queue.py).                                 *)
(*   SpecFeedback  user_feedback under FeedbackCRUD.set_feedback and       *)
(*               get_feedback_map, called as the API and the feed view     *)
(*               call them.                                                *)
(*   SpecTraining  get_all_training_data over user_feedback, feed_items    *)
(*               and content_library.                                      *)
(*   SpecRank    ContentFilter.filter_and_rank on scored items             *)
(*               (src/content/content_filter.py).                          *)
(*   SpecAgg     RSSAggregator.fetch_all / fetch_and_filter with the       *)
(*               cache of fetch_feed (src/content/rss_aggregator.py).      *)
(*   SpecReranker  FeedReranker.train and the model and stats files        *)
(*               (src/content/reranker.py).                                *)
(*   SpecRerank  FeedReranker.rerank on scored items.                      *)
(*   SpecSave    train step by step, with the model file being written     *)
(*               and another FeedReranker loading it.                      *)
(*   SpecFresh   one ContentFilter.score call on any day after the         *)
(*               publication date; SpecScore two calls, in either of two   *)
(*               processes.                                                *)
(*   SpecTx      update_status inside Database.connect.                    *)
(*   SpecLive    the monitor left alone after its first minutes while      *)
(*               the clock advances and can_act() is polled (weakly fair). *)
(*   SpecPublish two POST /api/posts/{id}/publish requests served by one   *)
(*               event loop.                                               *)
(*   SpecSched   ContentScheduler ticks with callbacks that return or      *)
(*               raise (src/core/scheduler.py).                            *)
(*   SpecGen     CommentGenerator.generate with its retry loop             *)
(*               (src/content/comment_generator.py, generator.py).         *)
(*                                                                         *)
(* Each specification moves the variables of its own component; the        *)
(* variables of the components it leaves out hold Unused throughout.       *)
(*                                                                         *)
(* Time is the wall clock in whole seconds.  Timestamps are the clock      *)
(* values at which record() ran.  error_rate_threshold is a float in the   *)
(* source; it is kept as the exact fraction thr_num / thr_den and compared *)
(* by cross-multiplication.                                                *)
(***************************************************************************)
EXTENDS Integers, Sequences, FiniteSets, TLC

\* ----------------------------------------------------------------- bounds
MaxRecords == 3
MaxAdvance == 2
MaxCalls == 2
MaxTicks == 1
MaxUpserts == 3
MaxStoreTime == 2
MaxRows == 1
MaxPostTime == 1
MaxDocs == 1
MaxItems == 3
MaxAggTicks == 2
MaxTrain == 2
MaxAgeMonths == 7
MaxScoreCalls == 2
MaxLiveMinutes == 2
MaxLiveHours == 2
MaxSchedTicks == 3
MaxOverConfidence == 10

\* ------------------------------------------------------ program constants
HourlyWindow == 3600
DailyWindow == 86400
WeeklyWindow == 604800
SecondsPerMinute == 60

\* Optional[float] = None
None == -1

\* The value of a variable in the specifications it takes no part in.
Unused == "unused"

\* Clock increments.  Their sums hit the window edges exactly (3600 s =
\* 1 + 3599, 86400 s, 604800 s), one second early (3599 s) and one or two
\* seconds late.
Deltas == {1, 3599, 86400, 604800}

\* SafetyMonitor(...) constructor arguments: limits of one, two and three
\* actions, the default threshold 0.3 and 0.5, the default error window and a
\* one-minute one, cooldowns of one minute and one hour.
Cfg(h, d, w, n, m, ew, cm) ==
  [hourly_limit |-> h, daily_limit |-> d, weekly_limit |-> w,
   thr_num |-> n, thr_den |-> m,
   error_window_seconds |-> ew, cooldown_minutes |-> cm]

Configs ==
  { Cfg(2, 2, 2, 3, 10, 3600, 1),
    Cfg(2, 2, 3, 1, 2, 60, 60),
    Cfg(3, 3, 3, 1, 2, 3600, 60),
    Cfg(1, 2, 2, 3, 10, 60, 1) }

WindowNames == {"hourly", "daily", "weekly"}

VARIABLES
  cfg,             \* the dataclass fields set by the constructor
  now,             \* time.time()
  hourly,          \* _hourly._timestamps
  daily,           \* _daily._timestamps
  weekly,          \* _weekly._timestamps
  errors,          \* _errors
  successes,       \* _successes
  cooldown_until,  \* _cooldown_until
  hist,            \* every record_action / record_error call so far
  last,            \* the last completed public call and what it returned
  tripAt,          \* time of the last can_act() that set the cooldown
  exceedAt,        \* time of the last can_act() called with the rate exceeded
  advances,        \* number of clock increments so far
  lock,            \* _lock: the thread holding it, or NoThread
  th,              \* per thread: where it is in which bot method
  calls,           \* number of bot methods called so far
  rejected,        \* some can_act() has returned false
  unguarded,       \* some record call was not preceded by a true can_act()
  feed_items,      \* table feed_items: the rows in rowid order
  feed_seq,        \* sqlite_sequence of feed_items (AUTOINCREMENT)
  upserted,        \* every item_hash passed to upsert so far
  firstArgs,       \* item_hash -> the arguments of its first upsert
  lastUp,          \* the last upsert: arguments, time, return value
  nUpserts,        \* number of upsert calls so far
  posts,           \* table posts: the rows in rowid order
  comments,        \* table comments: the rows in rowid order
  email,           \* config.linkedin.email
  pub,             \* the POST /api/posts/{id}/publish request under way
  plast,           \* the last update_status call, if it published a row or
                   \* rejected one with a reason
  user_feedback,   \* table user_feedback: the rows in rowid order
  content_library, \* table content_library: the rows in rowid order
  lib_seq,         \* sqlite_sequence of content_library (AUTOINCREMENT)
  tdata,           \* what the last get_all_training_data() returned
  fmap,            \* what get_feedback_map() returned since the last write
  flast,           \* the last set_feedback call: its arguments
  rin,             \* filter_and_rank / rerank: the scored items and the
                   \* other inputs of the call
  rout,            \* filter_and_rank / rerank: what it returned
  max_items_per_feed, \* RSSAggregator.max_items_per_feed
  cache,           \* RSSAggregator._cache: url -> (time, items)
  run,             \* the fetch_all / fetch_and_filter call under way: the
                   \* sources left, all_items, and what each source did
  reranker,        \* FeedReranker: min_training_samples, _model, _stats
  rfiles,          \* the files at model_path and model_path + ".stats.json"
  tret,            \* the last train() call: its arguments and how it ended
  tjob,            \* a train() call step by step: where it is, its labels
  peer,            \* _model of another FeedReranker after its _load_model()
  scorer,          \* ContentFilter.score: the order in which each process
                   \* iterates the keyword sets, and the calls made so far
  tx,              \* the last update_status transaction: its arguments, the
                   \* rows before and after, and whether it raised
  reqs,            \* the POST /api/posts/{id}/publish requests in flight
  sched,           \* ContentScheduler: the callbacks set, and the tick of a
                   \* job: where it is and what it has done
  gen              \* CommentGenerator.generate: the attempts made, the last
                   \* GenerationResult and the dict returned

monVars == <<cfg, now, hourly, daily, weekly, errors, successes, cooldown_until>>
obsVars == <<hist, last, tripAt, exceedAt, advances>>
thrVars == <<lock, th, calls, rejected, unguarded>>
storeVars == <<feed_items, feed_seq, upserted, firstArgs, lastUp, nUpserts>>
postVars == <<posts, comments, email, pub, plast>>
fbVars == <<user_feedback, content_library, lib_seq, tdata, fmap, flast>>
rankVars == <<rin, rout>>
aggVars == <<max_items_per_feed, cache, run>>
trainVars == <<reranker, rfiles, tret, tjob, peer>>
extraVars == <<scorer, tx, reqs, sched, gen>>
contentVars == <<rankVars, aggVars, trainVars, extraVars>>
appVars == <<postVars, fbVars, contentVars>>
baseVars == <<monVars, obsVars, thrVars, storeVars>>
monState == <<cfg, hourly, daily, weekly, errors, successes, cooldown_until>>
postFrame == <<monState, obsVars, thrVars, storeVars, fbVars, contentVars>>
vars == <<monVars, obsVars, thrVars, storeVars, appVars>>

\* ------------------------------------------------------------ RateLimiter
Prune_inclusive(ts, cutoff) == SelectSeq(ts, LAMBDA t : t >= cutoff)

\* _prune(now) with cutoff = now - window_seconds
Prune_never(ts, cutoff) == ts

Prune(ts, cutoff) == SelectSeq(ts, LAMBDA t : t > cutoff)

AppendTs(ts, t) == Append(ts, t)

Max0(n) == IF n > 0 THEN n ELSE 0

\* can_act(): prune, then compare.  Returns the pruned list and the answer.
RL_can_act(ts, max_actions, window_seconds, t) ==
  LET p == Prune(ts, t - window_seconds)
  IN  [ts |-> p, ret |-> Len(p) < max_actions]

\* remaining(): prune, then max(0, max_actions - len).
RL_remaining(ts, max_actions, window_seconds, t) ==
  LET p == Prune(ts, t - window_seconds)
  IN  [ts |-> p, ret |-> Max0(max_actions - Len(p))]

\* ---------------------------------------------------------- SafetyMonitor
\* "self._cooldown_until and now < self._cooldown_until"
InCooldown(cu, t) == cu # None /\ cu # 0 /\ t < cu

CooldownDeadline_minutes(t, minutes) == t + minutes

CooldownDeadline(t, minutes) == t + minutes * SecondsPerMinute

ErrorRateExceeds_atleast(e, s, num, den) ==
  IF e + s = 0 THEN FALSE ELSE e * den >= num * (e + s)

\* len(errors) / total > error_rate_threshold, 0.0 when total == 0
ErrorRateExceeds(e, s, num, den) ==
  IF e + s = 0 THEN FALSE ELSE e * den > num * (e + s)

\* round(rate, 3) in thousandths
ErrorRateMilli(e, s) ==
  IF e + s = 0 THEN 0 ELSE (2000 * e + (e + s)) \div (2 * (e + s))

\* can_act() evaluated at clock value t on the given fields; the result
\* carries the fields as the call leaves them, the return value, the answer
\* of each RateLimiter that was asked and whether the cooldown was set.
SM_can_act(h, d, w, e, s, cu, c, t) ==
  LET skipped == [n \in WindowNames |-> "skipped"]
      base == [hourly |-> h, daily |-> d, weekly |-> w, errors |-> e,
               successes |-> s, cooldown_until |-> cu, ret |-> FALSE,
               rl |-> skipped, tripped |-> FALSE]
      rh == RL_can_act(h, c.hourly_limit, HourlyWindow, t)
      rd == RL_can_act(d, c.daily_limit, DailyWindow, t)
      rw == RL_can_act(w, c.weekly_limit, WeeklyWindow, t)
      e1 == Prune(e, t - c.error_window_seconds)
      s1 == Prune(s, t - c.error_window_seconds)
      B(x) == IF x THEN "true" ELSE "false"
  IN  IF InCooldown(cu, t) THEN base
      ELSE IF ~rh.ret THEN
        [base EXCEPT !.hourly = rh.ts, !.rl = [skipped EXCEPT !["hourly"] = "false"]]
      ELSE IF ~rd.ret THEN
        [base EXCEPT !.hourly = rh.ts, !.daily = rd.ts,
                     !.rl = [skipped EXCEPT !["hourly"] = "true", !["daily"] = "false"]]
      ELSE IF ~rw.ret THEN
        [base EXCEPT !.hourly = rh.ts, !.daily = rd.ts, !.weekly = rw.ts,
                     !.rl = [n \in WindowNames |-> B(n # "weekly")]]
      ELSE LET full == [base EXCEPT !.hourly = rh.ts, !.daily = rd.ts,
                                    !.weekly = rw.ts, !.errors = e1,
                                    !.successes = s1,
                                    !.rl = [n \in WindowNames |-> "true"]]
           IN  IF ErrorRateExceeds(Len(e1), Len(s1), c.thr_num, c.thr_den)
               THEN [full EXCEPT !.cooldown_until =
                                    CooldownDeadline(t, c.cooldown_minutes),
                                 !.tripped = TRUE]
               ELSE [full EXCEPT !.ret = TRUE]

SM_record_oneList(h, d, w, e, s, kind, t) ==
  [hourly |-> AppendTs(h, t), daily |-> AppendTs(d, t),
   weekly |-> IF kind = "error" THEN w ELSE AppendTs(w, t),
   errors |-> IF kind = "error" THEN Append(e, t) ELSE e,
   successes |-> Append(s, t)]

\* record_action() (kind "success") and record_error() (kind "error") at
\* clock value t.
SM_record(h, d, w, e, s, kind, t) ==
  [hourly |-> AppendTs(h, t), daily |-> AppendTs(d, t),
   weekly |-> AppendTs(w, t),
   errors |-> IF kind = "error" THEN Append(e, t) ELSE e,
   successes |-> IF kind = "success" THEN Append(s, t) ELSE s]

\* get_stats() evaluated at clock value t.
SM_get_stats(h, d, w, e, s, cu, c, t) ==
  LET rh == RL_remaining(h, c.hourly_limit, HourlyWindow, t)
      rd == RL_remaining(d, c.daily_limit, DailyWindow, t)
      rw == RL_remaining(w, c.weekly_limit, WeeklyWindow, t)
      e1 == Prune(e, t - c.error_window_seconds)
      s1 == Prune(s, t - c.error_window_seconds)
  IN  [hourly |-> rh.ts, daily |-> rd.ts, weekly |-> rw.ts,
       errors |-> e1, successes |-> s1,
       stats |-> [hourly_remaining |-> rh.ret,
                  daily_remaining |-> rd.ret,
                  weekly_remaining |-> rw.ret,
                  error_rate |-> ErrorRateMilli(Len(e1), Len(s1)),
                  in_cooldown |-> (cu # None /\ t < cu)]]

\* --------------------------------------------- what the calls were given
\* Number of recorded calls of the given kinds with a timestamp newer than
\* cutoff, counted on the full call history.
CountSince(kinds, cutoff) ==
  Cardinality({i \in DOMAIN hist : hist[i].kind \in kinds /\ hist[i].t > cutoff})

AnyKind == {"success", "error"}

\* errors / (errors + successes) over the error window ending at t is above
\* the threshold, on the full call history.
HistRateExceeds(t) ==
  LET e == CountSince({"error"}, t - cfg.error_window_seconds)
      s == CountSince({"success"}, t - cfg.error_window_seconds)
  IN  e + s > 0 /\ e * cfg.thr_den > cfg.thr_num * (e + s)

\* Every rate window holds fewer unexpired calls than its limit at time t.
HistHasCapacity(t) ==
  /\ CountSince(AnyKind, t - 3600) < cfg.hourly_limit
  /\ CountSince(AnyKind, t - 86400) < cfg.daily_limit
  /\ CountSince(AnyKind, t - 604800) < cfg.weekly_limit

NoStats == [hourly_remaining |-> 0, daily_remaining |-> 0,
            weekly_remaining |-> 0, error_rate |-> 0, in_cooldown |-> FALSE]

NoCall == [op |-> "none", at |-> 0, ret |-> FALSE,
           rl |-> [n \in WindowNames |-> "skipped"], tripped |-> FALSE,
           cu |-> None, stats |-> NoStats]

\* ----------------------------------------------------------------- threads
Threads == {1, 2}

NoThread == 0

LockFree_always(l) == TRUE

\* "with self._lock:" can be entered
LockFree(l) == l = NoThread

\* A thread outside every bot method.
Idle == [pc |-> "idle", op |-> "none", fn |-> "none", meth |-> "none",
         ret |-> FALSE, lnow |-> 0, enow |-> 0, tmp |-> <<>>, pass |-> 1,
         kind |-> "none", permit |-> FALSE, navigated |-> FALSE, seen |-> 0]

\* LinkedInBot methods and SafetyMonitor.get_stats as called by the API.
BotOps == {"login", "publish_post", "publish_comment",
           "get_my_latest_post_url", "comment_on_own_latest_post",
           "search_posts", "get_stats"}

\* Steps between taking and releasing _lock.
LockedPcs == {"ca_hourly", "ca_daily", "ca_weekly", "ca_unlock",
              "er_read_e", "er_write_e", "er_read_s", "er_write_s", "er_eval",
              "rec_hourly", "rec_daily", "rec_weekly", "rec_list", "rec_unlock",
              "gs_hourly", "gs_daily", "gs_weekly", "gs_cool", "gs_unlock"}

RecordPcs == {"rec_hourly", "rec_daily", "rec_weekly", "rec_list", "rec_unlock"}

\* ------------------------------------------------------------- feed_items
Hashes == {"h1", "h2"}
Scores == {10, 20}

\* What one upsert call passes besides item_hash and final_score; "other"
\* stands for the remaining columns of the INSERT list (source_name ...
\* matched_categories).
Payloads ==
  { [title |-> "First", content |-> "", url |-> "", other |-> "o1"],
    [title |-> "First Updated", content |-> "text",
     url |-> "https://example.com", other |-> "o2"],
    [title |-> "First", content |-> "text", url |-> "", other |-> "o2"] }

\* The arguments of one upsert call.
UpsertArgs ==
  { [item_hash |-> h, title |-> p.title, content |-> p.content, url |-> p.url,
     other |-> p.other, final_score |-> f] :
       h \in Hashes, p \in Payloads, f \in Scores }

NoUpsert == [args |-> [item_hash |-> "none"], at |-> 0, existed |-> FALSE,
             lastrowid |-> 0]

\* UNIQUE(item_hash): the row the INSERT conflicts with, 0 when none.
ConflictRow_none(rows, h) == 0

ConflictRow(rows, h) ==
  IF \E i \in DOMAIN rows : rows[i].item_hash = h
  THEN CHOOSE i \in DOMAIN rows : rows[i].item_hash = h
  ELSE 0

\* VALUES (...) with the column defaults saved_to_library = 0 and
\* fetched_at = datetime('now')
InsertedRow(id, a, t) ==
  [id |-> id, item_hash |-> a.item_hash, title |-> a.title,
   content |-> a.content, url |-> a.url, other |-> a.other,
   final_score |-> a.final_score, saved_to_library |-> 0, fetched_at |-> t]

OnConflictUpdate_all(row, a, t) ==
  [row EXCEPT !.title = a.title, !.content = a.content, !.url = a.url,
              !.final_score = a.final_score, !.fetched_at = t]

\* DO UPDATE SET final_score = excluded.final_score, fetched_at = datetime('now')
OnConflictUpdate(row, a, t) ==
  [row EXCEPT !.final_score = a.final_score, !.fetched_at = t]

\* ------------------------------------------------------ posts and comments
\* The CHECK constraint of the status column of posts and of comments.
Statuses == {"draft", "approved", "published", "rejected"}

\* A status the constraint does not list, as a caller can pass one.
StatusInputs == Statuses \cup {"archived"}

\* SQL NULL / Python None in a text column.
Null == "null"

\* The reason the UI passes with a rejection.
ReasonUI == "Rejected in UI"

ReasonInputs == {Null, "", ReasonUI}

\* The (status, reason) pairs the callers pass: every status without a
\* reason, a rejection with an empty and with a real reason, and a reason
\* passed along with another status.
StatusArgs ==
  {<<st, Null>> : st \in StatusInputs}
    \cup {<<"rejected", r>> : r \in ReasonInputs}
    \cup {<<"published", ReasonUI>>}

\* Python truthiness of an Optional[str].
Truthy(str) == str # Null /\ str # ""

\* The URL get_my_latest_post_url() finds, or Null.
PostUrls == {Null, "https://www.linkedin.com/feed/update/1"}

\* INSERT INTO posts / comments: the column defaults of the schema.
NewPost(id, rag_sources) ==
  [id |-> id, status |-> "draft", published_at |-> None,
   rejection_reason |-> Null, linkedin_url |-> Null,
   rag_sources |-> rag_sources]

NewComment(id) ==
  [id |-> id, status |-> "draft", published_at |-> None,
   rejection_reason |-> Null]

\* PostCRUD.update_status / CommentCRUD.update_status on the row the WHERE
\* clause selects; a status outside the CHECK constraint raises
\* IntegrityError and the transaction is rolled back.
UpdateStatusRow_nostamp(row, status, reason, t) ==
  IF status \notin Statuses THEN row
  ELSE IF status = "rejected" /\ Truthy(reason)
       THEN [row EXCEPT !.status = status, !.rejection_reason = reason]
       ELSE [row EXCEPT !.status = status]

UpdateStatusRow(row, status, reason, t) ==
  IF status \notin Statuses THEN row
  ELSE IF status = "rejected" /\ Truthy(reason)
       THEN [row EXCEPT !.status = status, !.rejection_reason = reason]
       ELSE IF status = "published"
            THEN [row EXCEPT !.status = status, !.published_at = t]
            ELSE [row EXCEPT !.status = status]

\* UPDATE ... WHERE id = ?: every row with that id, none when there is none.
UpdateStatus(rows, id, status, reason, t) ==
  [i \in DOMAIN rows |->
     IF rows[i].id = id THEN UpdateStatusRow(rows[i], status, reason, t)
     ELSE rows[i]]

\* CHECK(status IN ('draft','approved','published','rejected')) on posts and
\* comments: the UPDATE of a row to another status raises IntegrityError; an
\* UPDATE that matches no row checks nothing.
CheckViolated_never(rows, id, status) == FALSE

CheckViolated(rows, id, status) ==
  (\E i \in DOMAIN rows : rows[i].id = id) /\ status \notin Statuses

\* Database.connect: commit when the block ends, rollback and re-raise when
\* it raises.
Connect(before, pending, raised) == IF raised THEN before ELSE pending

\* PostCRUD.set_linkedin_url
SetLinkedinUrl(rows, id, url) ==
  [i \in DOMAIN rows |->
     IF rows[i].id = id THEN [rows[i] EXCEPT !.linkedin_url = url]
     ELSE rows[i]]

\* PostCRUD.get: the index of the row, 0 for None.
GetRow(rows, id) ==
  IF \E i \in DOMAIN rows : rows[i].id = id
  THEN CHOOSE i \in DOMAIN rows : rows[i].id = id
  ELSE 0

\* The publish request: where it is, the post it read, what the browser
\* returned, the HTTP outcome, and the columns it has written.
NoRequest ==
  [pc |-> "idle", id |-> 0, post_url |-> Null, outcome |-> "none",
   wrote |-> {}]

NoStatusCall ==
  [tbl |-> "none", id |-> 0, status |-> "none", reason |-> Null, at |-> 0]

\* What is kept of an update_status call: a call that found its row and
\* either published it or rejected it with a reason.
StatusCall(tbl, rows, id, status, reason, t) ==
  IF GetRow(rows, id) = 0 THEN NoStatusCall
  ELSE IF status = "published"
       THEN [tbl |-> tbl, id |-> id, status |-> status, reason |-> Null,
             at |-> t]
       ELSE IF status = "rejected" /\ Truthy(reason)
            THEN [tbl |-> tbl, id |-> id, status |-> status,
                  reason |-> reason, at |-> 0]
            ELSE NoStatusCall

\* --------------------------------------------- feedback and the library
Labels == {"liked", "disliked"}

\* The feed items of this part: item_hash is a hash of title and url, so an
\* item_hash comes with one title and one url; one item has no url.
FeedArgs ==
  {a \in UpsertArgs :
     /\ a.final_score = 10
     /\ \/ a.item_hash = "h1" /\ a.title = "First" /\ a.url = ""
           /\ a.other = "o1"
        \/ a.item_hash = "h2" /\ a.url # "" /\ a.other = "o2"}

\* content_library.source as the callers set it: the item's url or "".
LibSources == {"", "https://example.com"}

\* generated_post as update_generated_post receives it.
GeneratedPosts == {"", "generated"}

\* INSERT INTO content_library: generated_post has no default.
NewDoc(id, source) == [id |-> id, source |-> source, generated_post |-> Null]

\* UNIQUE(feed_item_id) of user_feedback: the row the INSERT conflicts with,
\* 0 when none.
FeedbackConflictRow(rows, id) ==
  IF \E i \in DOMAIN rows : rows[i].feed_item_id = id
  THEN CHOOSE i \in DOMAIN rows : rows[i].feed_item_id = id
  ELSE 0

\* FeedbackCRUD.set_feedback: INSERT ... ON CONFLICT(feed_item_id) DO UPDATE
\* SET feedback = excluded.feedback, created_at = datetime('now').
SetFeedbackRows_keep(rows, id, h, label, t) ==
  LET c == FeedbackConflictRow(rows, id)
  IN  IF c = 0
      THEN Append(rows, [feed_item_id |-> id, item_hash |-> h,
                         feedback |-> label, created_at |-> t])
      ELSE [rows EXCEPT ![c].created_at = t]

SetFeedbackRows(rows, id, h, label, t) ==
  LET c == FeedbackConflictRow(rows, id)
  IN  IF c = 0
      THEN Append(rows, [feed_item_id |-> id, item_hash |-> h,
                         feedback |-> label, created_at |-> t])
      ELSE [rows EXCEPT ![c].feedback = label, ![c].created_at = t]

\* FeedbackCRUD.get_feedback_map: {r["item_hash"]: r["feedback"] for r in
\* rows}; a later row with the same key replaces an earlier one.
GetFeedbackMap(rows) ==
  [h \in {rows[i].item_hash : i \in DOMAIN rows} |->
     LET last_i == CHOOSE i \in DOMAIN rows :
                     /\ rows[i].item_hash = h
                     /\ \A j \in DOMAIN rows : rows[j].item_hash = h => j <= i
     IN  rows[last_i].feedback]

\* The index pairs <<i, j>> of two tables in nested-loop order.
JoinPairs(n, m) ==
  [k \in 1..(n * m) |-> <<((k - 1) \div m) + 1, ((k - 1) % m) + 1>>]

\* SELECT fi.*, uf.feedback FROM user_feedback uf JOIN feed_items fi
\* ON fi.id = uf.feed_item_id
ExplicitRows(uf, fi) ==
  LET pairs == SelectSeq(JoinPairs(Len(uf), Len(fi)),
                         LAMBDA q : fi[q[2]].id = uf[q[1]].feed_item_id)
  IN  [k \in DOMAIN pairs |->
         [id |-> fi[pairs[k][2]].id, item_hash |-> fi[pairs[k][2]].item_hash,
          url |-> fi[pairs[k][2]].url, feedback |-> uf[pairs[k][1]].feedback]]

\* SELECT fi.*, 'liked' AS feedback FROM feed_items fi JOIN content_library cl
\* ON fi.url != '' AND fi.url = cl.source
\* WHERE cl.generated_post IS NOT NULL AND cl.generated_post != ''
PublishedRows(fi, cl) ==
  LET pairs == SelectSeq(JoinPairs(Len(fi), Len(cl)),
                         LAMBDA q : /\ fi[q[1]].url # ""
                                    /\ fi[q[1]].url = cl[q[2]].source
                                    /\ cl[q[2]].generated_post # Null
                                    /\ cl[q[2]].generated_post # "")
  IN  [k \in DOMAIN pairs |->
         [id |-> fi[pairs[k][1]].id, item_hash |-> fi[pairs[k][1]].item_hash,
          url |-> fi[pairs[k][1]].url, feedback |-> "liked"]]

\* FeedbackCRUD.get_all_training_data: the explicit rows, then every
\* published row whose item_hash is not among the explicit ones.
GetAllTrainingData_nofilter(uf, fi, cl) ==
  ExplicitRows(uf, fi) \o PublishedRows(fi, cl)

GetAllTrainingData(uf, fi, cl) ==
  LET result == ExplicitRows(uf, fi)
      existing_hashes == {result[k].item_hash : k \in DOMAIN result}
  IN  result \o SelectSeq(PublishedRows(fi, cl),
                          LAMBDA r : r.item_hash \notin existing_hashes)

NoMap == [read |-> FALSE, map |-> <<>>]

NoData == [read |-> FALSE, rows |-> <<>>]

NoFeedbackCall ==
  [called |-> FALSE, id |-> 0, item_hash |-> "none", label |-> "none"]


\* ------------------------------------------------------------ ContentFilter
\* final_score values (in hundredths) and thresholds around them.
ScoreValues == {1, 2, 3}

Thresholds == {2, 4}

\* The items of a call in input order, as score() returns them: the title
\* tells the items apart, the score is what the Scorer gave.
ScoredItems(scores) ==
  [k \in DOMAIN scores |-> [title |-> k, final_score |-> scores[k]]]

RankInputs ==
  {[items |-> ScoredItems(f), min_score_threshold |-> t, max_results |-> m] :
     f \in UNION {[1..n -> ScoreValues] : n \in 0..MaxItems},
     t \in Thresholds, m \in 0..MaxItems}

Reverse(s) == [k \in DOMAIN s |-> s[Len(s) + 1 - k]]

\* One step of the insertion: x goes behind every element that is not greater.
InsertAsc_front(t, x) ==
  LET n == Cardinality({i \in DOMAIN t : t[i].final_score < x.final_score})
  IN  SubSeq(t, 1, n) \o <<x>> \o SubSeq(t, n + 1, Len(t))

InsertAsc(t, x) ==
  LET n == Cardinality({i \in DOMAIN t : t[i].final_score <= x.final_score})
  IN  SubSeq(t, 1, n) \o <<x>> \o SubSeq(t, n + 1, Len(t))

RECURSIVE StableSortAsc(_)
StableSortAsc(s) ==
  IF s = <<>> THEN <<>>
  ELSE InsertAsc(StableSortAsc(SubSeq(s, 1, Len(s) - 1)), s[Len(s)])

\* list.sort(key=final_score, reverse=True): the list is reversed, sorted
\* ascending by a stable sort and reversed again.
SortReverse(s) == Reverse(StableSortAsc(Reverse(s)))

\* s[:m]
SliceTo(s, m) ==
  IF m >= 0
  THEN SubSeq(s, 1, IF m < Len(s) THEN m ELSE Len(s))
  ELSE SubSeq(s, 1, Max0(Len(s) + m))

\* ContentFilter.filter_and_rank on items already scored.
FilterAndRank(items, min_score_threshold, max_results) ==
  LET scored_items ==
        SelectSeq(items, LAMBDA x : x.final_score >= min_score_threshold)
  IN  SliceTo(SortReverse(scored_items), max_results)

NoInput == [items |-> <<>>, min_score_threshold |-> 0, max_results |-> 0]

NoResult == [done |-> FALSE, ranked |-> <<>>]

RankIdle == rin = Unused /\ rout = Unused

\* --------------------------------------------------- FeedReranker.rerank
\* P(liked) * 100 as predict_proba gives it, rounded.
MlScores == {1, 3}

\* "sorted(items, key=lambda x: x.final_score, reverse=True)"
RerankFallback_unsorted(items) == items

RerankFallback(items) == SortReverse(items)

\* rerank(items): without a model or without items the fallback; else the
\* features, the Pool and predict_proba, which raise or give one probability
\* per item; then every final_score is overwritten
\* and the list sorted in place.
Rerank(items, trained, prediction) ==
  IF ~trained \/ items = <<>>
  THEN RerankFallback(items)
  ELSE IF prediction.raises
       THEN RerankFallback(items)
       ELSE SortReverse([k \in DOMAIN items |->
                           [items[k] EXCEPT
                              !.final_score = prediction.probas[k]]])

RerankInputs ==
  UNION {
    {[items |-> ScoredItems(f), trained |-> t,
      prediction |-> [raises |-> TRUE, probas |-> <<>>]] : t \in BOOLEAN}
    \cup {[items |-> ScoredItems(f), trained |-> TRUE,
           prediction |-> [raises |-> FALSE, probas |-> p]] :
            p \in [DOMAIN f -> MlScores]} :
    f \in UNION {[1..n -> ScoreValues] : n \in 0..MaxItems}}

\* ------------------------------------------------ ContentFilter.score
MaxMatchedKeywords == 15

\* Three keywords of the taxonomy, one of each priority, and the texts of
\* this part by the keywords they contain.
Keywords == {"kw_high", "kw_medium", "kw_low"}

Texts == {{"kw_high", "kw_medium"}, {"kw_high", "kw_medium", "kw_low"}}

\* Iteration orders of the set HIGH | MEDIUM | LOW: the order of a set of
\* strings follows the string hashes, which are seeded per process.
KeywordOrders ==
  {<<"kw_high", "kw_medium", "kw_low">>, <<"kw_low", "kw_medium", "kw_high">>}

\* _calculate_keyword_score: 5, 3 and 1 per keyword found.
KeywordScore(text) ==
  (IF "kw_high" \in text THEN 5 ELSE 0)
  + (IF "kw_medium" \in text THEN 3 ELSE 0)
  + (IF "kw_low" \in text THEN 1 ELSE 0)

\* _find_matched_keywords: the keywords found, in iteration order, cut at
\* max_keywords.
FindMatchedKeywords(text, order, max_keywords) ==
  SliceTo(SelectSeq(order, LAMBDA kw : kw \in text), max_keywords)

\* a / b rounded to the nearest integer, for a >= 0 and b > 0.
RoundDiv(a, b) == (2 * a + b) \div (2 * b)

\* published_at values: missing, empty, not a date, or an ISO date; time is
\* counted in days from that date.
DateStrings == {Null, "", "gibberish text", "2024-10-15T12:00:00Z"}

\* parse_published_date: None for what is not a date.
ParsePublishedDate(date_str) ==
  IF date_str = "2024-10-15T12:00:00Z" THEN 0 ELSE None

\* months_ago in days: max(0, now - dt), a month being 30 days.
DaysAgo(dt, t) == Max0(t - dt)

\* _calculate_freshness in units of 1/10000:
\* round(min(1.0, max(0.1, 1.0 - (age - 1) * 0.25)), 4) with age = days / 30,
\* so 1.0 - (age - 1) * 0.25 = (150 - days) / 120.
Clamp120_nofloor(x) == IF x > 120 THEN 120 ELSE x

Clamp120(x) == IF x > 120 THEN 120 ELSE IF x < 12 THEN 12 ELSE x

CalculateFreshness(published_at, t) ==
  IF published_at = Null \/ published_at = ""
  THEN 10000
  ELSE LET dt == ParsePublishedDate(published_at)
       IN  IF dt = None
           THEN 10000
           ELSE RoundDiv(Clamp120(150 - DaysAgo(dt, t)) * 10000, 120)

\* score(): the fields of the ScoredContent that depend on the keywords and
\* the date; final_score in hundredths, from keyword_score * 0.35 and the
\* freshness.
Score(text, published_at, order, t) ==
  LET fresh == CalculateFreshness(published_at, t)
  IN  [keyword_score |-> KeywordScore(text),
       matched_keywords |->
         FindMatchedKeywords(text, order, MaxMatchedKeywords),
       freshness_multiplier |-> fresh,
       final_score |-> RoundDiv(KeywordScore(text) * 35 * fresh, 10000)]

Procs == {1, 2}

NoScorer == [order |-> [p \in Procs |-> <<>>], calls |-> <<>>]

ScoreIdle == scorer = Unused

NoTx ==
  [tbl |-> "none", id |-> 0, status |-> "none", before |-> <<>>,
   after |-> <<>>, raised |-> FALSE]

\* Two requests that the event loop can serve at the same time.
Requests == {1, 2}

NoPublish ==
  [pc |-> "idle", id |-> 0, post_url |-> Null, outcome |-> "none",
   posted |-> FALSE]

TxIdle == tx = Unused

ReqIdle == reqs = Unused

\* The two jobs ContentScheduler.start() adds.
Jobs == {"post", "comment"}

NoSnapshot ==
  [hourly |-> <<>>, daily |-> <<>>, weekly |-> <<>>, errors |-> <<>>,
   successes |-> <<>>, cooldown_until |-> None]

NoTick ==
  [pc |-> "idle", job |-> "none", permitted |-> FALSE, ran |-> FALSE,
   outcome |-> "none", after_can_act |-> NoSnapshot, ticks |-> 0]

NoSched == [callbacks |-> {}, tick |-> NoTick]

SchedIdle == sched = Unused

\* Confidences in hundredths.  The text of a provider either has no
\* CONFIDENCE: line, or one that is not a number, or one with a number.
MaxRetries == 2

DefaultConfidence == 50

RawTexts ==
  {[line |-> "none", x |-> 0], [line |-> "junk", x |-> 0]}
    \cup {[line |-> "number", x |-> v] :
            v \in (0 - MaxOverConfidence)..(100 + MaxOverConfidence)}

\* _parse_confidence: the number clamped to [0, 1], 0.5 without one.
ClampConfidence(x) == IF x > 100 THEN 100 ELSE IF x < 0 THEN 0 ELSE x

ParseConfidence(raw) ==
  IF raw.line = "number"
  THEN [reported |-> TRUE, confidence |-> ClampConfidence(raw.x)]
  ELSE [reported |-> FALSE, confidence |-> DefaultConfidence]

\* result.confidence or 0.5: None and 0.0 are both falsy.
OrDefault(confidence) ==
  IF confidence = None \/ confidence = 0 THEN DefaultConfidence
  ELSE confidence

NoGen ==
  [pc |-> "idle", attempt |-> 0,
   result |-> [reported |-> FALSE, confidence |-> None],
   returned |-> None]

GenIdle == gen = Unused

ExtraIdle == ScoreIdle /\ TxIdle /\ ReqIdle /\ SchedIdle /\ GenIdle

\* ------------------------------------------------------------ RSSAggregator
CacheTtl == 1800

\* Two enabled sources: an RSS feed and the Hugging Face Daily Papers API.
Feeds ==
  <<[name |-> "blog", url |-> "https://example.com/feed", priority |-> 1,
     source_type |-> "rss", enabled |-> TRUE],
    [name |-> "hf", url |-> "https://huggingface.co/api/daily_papers",
     priority |-> 2, source_type |-> "api", enabled |-> TRUE]>>

Urls == {Feeds[i].url : i \in DOMAIN Feeds}

\* priorities of fetch_all: None, or a list of priorities.
PriorityArgs == {<<>>, <<1>>, <<2>>}

\* sha256(title + url)[:16]: one hash for one pair of title and url.
ItemHash(title, url) == <<title, url>>

\* FeedItem(...) and its __post_init__
FeedItem(title, url, source_name) ==
  [title |-> title, url |-> url, source_name |-> source_name,
   item_hash |-> ItemHash(title, url)]

\* What a source serves when it answers: the titles and links of its entries.
FeedPayloads ==
  {<<[title |-> "A", url |-> "https://example.com/a"]>>,
   <<[title |-> "B", url |-> "https://example.com/b"],
     [title |-> "A", url |-> "https://example.com/a"]>>}

\* _parse_rss / _fetch_huggingface_daily_papers on a well-formed answer.
Parse(payload, source) ==
  [k \in DOMAIN payload |->
     FeedItem(payload[k].title, payload[k].url, source.name)]

\* What can happen to a request: no answer (_fetch_url returns None), an
\* exception that _fetch_url and the parser do not catch, an answer that is
\* not XML / JSON, or an answer that parses.
FetchFailures == {"unreachable", "raise", "malformed"}

NoEntry == [time |-> -1, items |-> <<>>]

\* "now - cached_time < self._cache_ttl"
CacheFresh_inclusive(entry, t) == entry # NoEntry /\ t - entry.time <= CacheTtl

CacheFresh(entry, t) == entry # NoEntry /\ t - entry.time < CacheTtl

\* fetch_all's "except Exception": the error is logged, the loop goes on.
OnFeedError_propagate(r) == [r EXCEPT !.pc = "failed"]

OnFeedError(r) == [r EXCEPT !.pc = "loop", !.todo = Tail(r.todo)]

\* feeds_to_fetch
FeedsToFetch(priorities) ==
  LET enabled_feeds == SelectSeq(Feeds, LAMBDA f : f.enabled)
  IN  IF priorities # <<>>
      THEN SelectSeq(enabled_feeds,
                     LAMBDA f : \E i \in DOMAIN priorities :
                                  f.priority = priorities[i])
      ELSE enabled_feeds

\* The Scorer on the items of this part, and the threshold of the filter.
AggScore(item) == IF item.title = "A" THEN 3 ELSE 2

AggThreshold == 2

Scored(items) ==
  [k \in DOMAIN items |->
     [title |-> items[k].title, url |-> items[k].url,
      source |-> items[k].source_name, final_score |-> AggScore(items[k])]]

NoRun ==
  [pc |-> "idle", filter |-> FALSE, feeds |-> <<>>, todo |-> <<>>, t0 |-> 0,
   all_items |-> <<>>, log |-> <<>>, result |-> <<>>]

AggIdle == max_items_per_feed = Unused /\ cache = Unused /\ run = Unused

\* ------------------------------------------------------------- FeedReranker
\* min_training_samples as the constructor receives it.
MinSamples == {2, 3}

\* Rows of training_data: feed_items columns with a feedback column that is
\* set or missing, and the feedback_map passed along with them.
TrainRows ==
  {[item_hash |-> "h1", feedback |-> "liked"],
   [item_hash |-> "h2", feedback |-> Null]}

TrainData == UNION {[1..n -> TrainRows] : n \in 0..MaxTrain}

FeedbackMaps == {<<>>, [h \in {"h2"} |-> "liked"], [h \in {"h2"} |-> "disliked"]}

\* "fb = row.get('feedback') or feedback_map.get(item_hash)"
RowFeedback(row, feedback_map) ==
  IF row.feedback # Null /\ row.feedback # ""
  THEN row.feedback
  ELSE IF row.item_hash \in DOMAIN feedback_map
       THEN feedback_map[row.item_hash]
       ELSE Null

\* labels: 1 for liked, 0 for disliked, rows with anything else are skipped.
TrainLabels(training_data, feedback_map) ==
  LET used == SelectSeq(training_data,
                        LAMBDA row : RowFeedback(row, feedback_map)
                                       \in {"liked", "disliked"})
  IN  [k \in DOMAIN used |->
         IF RowFeedback(used[k], feedback_map) = "liked" THEN 1 ELSE 0]

\* "len(labels) < self.min_training_samples"
Insufficient_lax(n, min_training_samples) == n < min_training_samples - 1

Insufficient(n, min_training_samples) == n < min_training_samples

RECURSIVE SumSeq(_)
SumSeq(q) == IF q = <<>> THEN 0 ELSE Head(q) + SumSeq(Tail(q))

\* The model that fit() makes of the labelled rows, as far as it is told
\* apart here: by the labels it was trained on, whatever their order.
Fitted(labels) == <<Len(labels), SumSeq(labels)>>

\* self._stats after a training
TrainedStats(labels) ==
  [status |-> "trained", total_samples |-> Len(labels),
   liked |-> SumSeq(labels), disliked |-> Len(labels) - SumSeq(labels)]

NoModel == <<"none">>

NotTrained == [status |-> "not_trained"]

\* A model file that has been opened for writing and not yet written out.
PartialModel == <<"partial">>

NoJob == [pc |-> "idle", labels |-> <<>>]

\* _load_model(): no file, no model; load_model on a file that is not a
\* whole model raises and _model is set back to None.
LoadedModel(file) == IF file \in {NoModel, PartialModel} THEN NoModel ELSE file

NoTrain ==
  [called |-> FALSE, training_data |-> <<>>, feedback_map |-> <<>>,
   raised |-> FALSE, ret |-> NotTrained]

TrainIdle ==
  /\ reranker = Unused /\ rfiles = Unused /\ tret = Unused
  /\ tjob = Unused /\ peer = Unused

\* ------------------------------------------------------------------- Init
InitBase(configs, emails) ==
  /\ cfg \in configs
  /\ now = 0
  /\ hourly = <<>> /\ daily = <<>> /\ weekly = <<>>
  /\ errors = <<>> /\ successes = <<>>
  /\ cooldown_until = None
  /\ hist = <<>>
  /\ last = NoCall
  /\ tripAt = None
  /\ exceedAt = None
  /\ advances = 0
  /\ lock = NoThread
  /\ th = [t \in Threads |-> Idle]
  /\ calls = 0
  /\ rejected = FALSE
  /\ unguarded = FALSE
  /\ feed_items = <<>>
  /\ feed_seq = 0
  /\ upserted = {}
  /\ firstArgs = <<>>
  /\ lastUp = NoUpsert
  /\ nUpserts = 0
  /\ posts = <<>>
  /\ comments = <<>>
  /\ email \in emails
  /\ pub = NoRequest
  /\ plast = NoStatusCall
  /\ user_feedback = <<>>
  /\ content_library = <<>>
  /\ lib_seq = 0
  /\ tdata = NoData
  /\ fmap = NoMap
  /\ flast = NoFeedbackCall

InitWith(configs, emails) ==
  InitBase(configs, emails) /\ RankIdle /\ AggIdle /\ TrainIdle
  /\ ExtraIdle

Init == InitWith(Configs, {""})

\* ---------------------------------------------------------------- actions
\* The clock moves on; the last call's return value is no longer looked at.
Advance ==
  /\ advances < MaxAdvance
  /\ \E dt \in Deltas : now' = now + dt
  /\ advances' = advances + 1
  /\ last' = NoCall
  /\ UNCHANGED <<cfg, hourly, daily, weekly, errors, successes, cooldown_until,
                 hist, tripAt, exceedAt, thrVars, storeVars, appVars>>

CanAct ==
  LET r == SM_can_act(hourly, daily, weekly, errors, successes,
                      cooldown_until, cfg, now)
      exceeded == HistRateExceeds(now)
  IN  /\ hourly' = r.hourly /\ daily' = r.daily /\ weekly' = r.weekly
      /\ errors' = r.errors /\ successes' = r.successes
      /\ cooldown_until' = r.cooldown_until
      /\ last' = [NoCall EXCEPT !.op = "can_act", !.at = now, !.ret = r.ret,
                                !.rl = r.rl, !.tripped = r.tripped,
                                !.cu = cooldown_until]
      /\ tripAt' = IF r.tripped THEN now ELSE tripAt
      /\ exceedAt' = IF exceeded THEN now ELSE exceedAt
      /\ UNCHANGED <<cfg, now, hist, advances, thrVars, storeVars, appVars>>

Record(kind) ==
  /\ Len(hist) < MaxRecords
  /\ LET r == SM_record(hourly, daily, weekly, errors, successes, kind, now)
     IN  /\ hourly' = r.hourly /\ daily' = r.daily /\ weekly' = r.weekly
         /\ errors' = r.errors /\ successes' = r.successes
  /\ hist' = Append(hist, [t |-> now, kind |-> kind])
  /\ last' = [NoCall EXCEPT !.op = "record", !.at = now]
  /\ UNCHANGED <<cfg, now, cooldown_until, tripAt, exceedAt, advances,
                 thrVars, storeVars, appVars>>

RecordAction == Record("success")

RecordError == Record("error")

GetStats ==
  LET r == SM_get_stats(hourly, daily, weekly, errors, successes,
                        cooldown_until, cfg, now)
  IN  /\ hourly' = r.hourly /\ daily' = r.daily /\ weekly' = r.weekly
      /\ errors' = r.errors /\ successes' = r.successes
      /\ last' = [NoCall EXCEPT !.op = "get_stats", !.at = now,
                                !.stats = r.stats]
      /\ UNCHANGED <<cfg, now, cooldown_until, hist, tripAt, exceedAt, advances,
                     thrVars, storeVars, appVars>>

Next == Advance \/ CanAct \/ RecordAction \/ RecordError \/ GetStats

Spec == Init /\ [][Next]_vars

\* ------------------------------------------------- SpecThreads: the steps
SetTh(t, r) == th' = [th EXCEPT ![t] = r]

\* A thread calls a bot method.
Call(t, o) ==
  /\ th[t].pc = "idle"
  /\ calls < MaxCalls
  /\ calls' = calls + 1
  /\ SetTh(t, [Idle EXCEPT
        !.op = o,
        !.fn = IF o = "comment_on_own_latest_post"
               THEN "get_my_latest_post_url" ELSE o,
        !.seen = Len(hist),
        !.pc = IF o \in {"publish_post", "publish_comment"} THEN "ca_lock"
               ELSE IF o = "get_stats" THEN "gs_lock" ELSE "nav"])
  /\ UNCHANGED <<monVars, obsVars, lock, rejected, unguarded, storeVars, appVars>>

\* can_act(): take the lock, read the clock, test the cooldown.
CaLock(t) ==
  /\ th[t].pc = "ca_lock"
  /\ LockFree(lock)
  /\ lock' = t
  /\ SetTh(t, [th[t] EXCEPT !.meth = "can_act", !.lnow = now, !.ret = FALSE,
                            !.pass = 1,
                            !.pc = IF InCooldown(cooldown_until, now)
                                   THEN "ca_unlock" ELSE "ca_hourly"])
  /\ UNCHANGED <<monVars, obsVars, calls, rejected, unguarded, storeVars, appVars>>

CaHourly(t) ==
  /\ th[t].pc = "ca_hourly"
  /\ LET r == RL_can_act(hourly, cfg.hourly_limit, HourlyWindow, now)
     IN  /\ hourly' = r.ts
         /\ SetTh(t, [th[t] EXCEPT !.pc = IF r.ret THEN "ca_daily" ELSE "ca_unlock"])
  /\ UNCHANGED <<cfg, now, daily, weekly, errors, successes, cooldown_until,
                 obsVars, lock, calls, rejected, unguarded, storeVars, appVars>>

CaDaily(t) ==
  /\ th[t].pc = "ca_daily"
  /\ LET r == RL_can_act(daily, cfg.daily_limit, DailyWindow, now)
     IN  /\ daily' = r.ts
         /\ SetTh(t, [th[t] EXCEPT !.pc = IF r.ret THEN "ca_weekly" ELSE "ca_unlock"])
  /\ UNCHANGED <<cfg, now, hourly, weekly, errors, successes, cooldown_until,
                 obsVars, lock, calls, rejected, unguarded, storeVars, appVars>>

CaWeekly(t) ==
  /\ th[t].pc = "ca_weekly"
  /\ LET r == RL_can_act(weekly, cfg.weekly_limit, WeeklyWindow, now)
     IN  /\ weekly' = r.ts
         /\ SetTh(t, [th[t] EXCEPT !.pc = IF r.ret THEN "er_read_e" ELSE "ca_unlock"])
  /\ UNCHANGED <<cfg, now, hourly, daily, errors, successes, cooldown_until,
                 obsVars, lock, calls, rejected, unguarded, storeVars, appVars>>

\* _current_error_rate(): read the clock, build the pruned error list ...
ErReadE(t) ==
  /\ th[t].pc = "er_read_e"
  /\ SetTh(t, [th[t] EXCEPT !.enow = now,
                            !.tmp = Prune(errors, now - cfg.error_window_seconds),
                            !.pc = "er_write_e"])
  /\ UNCHANGED <<monVars, obsVars, lock, calls, rejected, unguarded, storeVars, appVars>>

\* ... assign it to _errors ...
ErWriteE(t) ==
  /\ th[t].pc = "er_write_e"
  /\ errors' = th[t].tmp
  /\ SetTh(t, [th[t] EXCEPT !.tmp = <<>>, !.pc = "er_read_s"])
  /\ UNCHANGED <<cfg, now, hourly, daily, weekly, successes, cooldown_until,
                 obsVars, lock, calls, rejected, unguarded, storeVars, appVars>>

\* ... build the pruned success list ...
ErReadS(t) ==
  /\ th[t].pc = "er_read_s"
  /\ SetTh(t, [th[t] EXCEPT
        !.tmp = Prune(successes, th[t].enow - cfg.error_window_seconds),
        !.pc = "er_write_s"])
  /\ UNCHANGED <<monVars, obsVars, lock, calls, rejected, unguarded, storeVars, appVars>>

\* ... assign it to _successes ...
ErWriteS(t) ==
  /\ th[t].pc = "er_write_s"
  /\ successes' = th[t].tmp
  /\ SetTh(t, [th[t] EXCEPT !.tmp = <<>>, !.pc = "er_eval"])
  /\ UNCHANGED <<cfg, now, hourly, daily, weekly, errors, cooldown_until,
                 obsVars, lock, calls, rejected, unguarded, storeVars, appVars>>

\* ... and return the rate to the caller.  can_act() compares it with the
\* threshold, computes it a second time for the log line and sets the
\* cooldown; get_stats() goes on to in_cooldown.
ErEval(t) ==
  /\ th[t].pc = "er_eval"
  /\ LET ex == ErrorRateExceeds(Len(errors), Len(successes),
                                cfg.thr_num, cfg.thr_den)
     IN  IF th[t].meth = "get_stats"
         THEN /\ SetTh(t, [th[t] EXCEPT !.pc = "gs_cool"])
              /\ UNCHANGED cooldown_until
         ELSE IF th[t].pass = 2
         THEN /\ cooldown_until' = CooldownDeadline(th[t].lnow, cfg.cooldown_minutes)
              /\ SetTh(t, [th[t] EXCEPT !.ret = FALSE, !.pc = "ca_unlock"])
         ELSE IF ex
         THEN /\ SetTh(t, [th[t] EXCEPT !.pass = 2, !.pc = "er_read_e"])
              /\ UNCHANGED cooldown_until
         ELSE /\ SetTh(t, [th[t] EXCEPT !.ret = TRUE, !.pc = "ca_unlock"])
              /\ UNCHANGED cooldown_until
  /\ UNCHANGED <<cfg, now, hourly, daily, weekly, errors, successes,
                 obsVars, lock, calls, rejected, unguarded, storeVars, appVars>>

\* can_act() leaves the lock and returns.
CaUnlock(t) ==
  /\ th[t].pc = "ca_unlock"
  /\ lock' = NoThread
  /\ rejected' = (rejected \/ ~th[t].ret)
  /\ SetTh(t, [th[t] EXCEPT !.meth = "none", !.pc = "ca_ret"])
  /\ UNCHANGED <<monVars, obsVars, calls, unguarded, storeVars, appVars>>

\* publish_post / publish_comment: "if not self.safety.can_act(): return False"
CaRet(t) ==
  /\ th[t].pc = "ca_ret"
  /\ IF th[t].ret
     THEN SetTh(t, [th[t] EXCEPT !.permit = TRUE, !.pc = "nav"])
     ELSE SetTh(t, Idle)
  /\ UNCHANGED <<monVars, obsVars, lock, calls, rejected, unguarded, storeVars, appVars>>

\* The browser navigates: goto_page / page.goto / playwright_login.
Nav(t) ==
  /\ th[t].pc = "nav"
  /\ SetTh(t, [th[t] EXCEPT !.navigated = TRUE, !.pc = "after_nav"])
  /\ UNCHANGED <<monVars, obsVars, lock, calls, rejected, unguarded, storeVars, appVars>>

\* What the method does after the page work: publish_* and login record a
\* success or an error, or an exception escapes without a record;
\* get_my_latest_post_url and search_posts return; comment_on_own_latest_post
\* goes on to publish_comment when it found a url.
AfterNav(t) ==
  /\ th[t].pc = "after_nav"
  /\ \/ /\ th[t].fn \in {"publish_post", "publish_comment", "login"}
        /\ \E k \in {"success", "error"} :
             SetTh(t, [th[t] EXCEPT !.kind = k, !.pc = "rec_lock"])
     \/ /\ th[t].fn \in {"publish_post", "publish_comment"}
        /\ SetTh(t, Idle)
     \/ /\ th[t].fn \in {"get_my_latest_post_url", "search_posts"}
        /\ SetTh(t, Idle)
     \/ /\ th[t].fn = "get_my_latest_post_url"
        /\ th[t].op = "comment_on_own_latest_post"
        /\ SetTh(t, [th[t] EXCEPT !.fn = "publish_comment", !.permit = FALSE,
                                  !.navigated = FALSE, !.seen = Len(hist),
                                  !.pc = "ca_lock"])
  /\ UNCHANGED <<monVars, obsVars, lock, calls, rejected, unguarded, storeVars, appVars>>

\* record_action() / record_error(): take the lock, read the clock.
RecLock(t) ==
  /\ th[t].pc = "rec_lock"
  /\ LockFree(lock)
  /\ lock' = t
  /\ SetTh(t, [th[t] EXCEPT !.meth = "record", !.lnow = now, !.pc = "rec_hourly"])
  /\ unguarded' = (unguarded \/ ~th[t].permit)
  /\ UNCHANGED <<monVars, obsVars, calls, rejected, storeVars, appVars>>

RecHourly(t) ==
  /\ th[t].pc = "rec_hourly"
  /\ hourly' = AppendTs(hourly, now)
  /\ SetTh(t, [th[t] EXCEPT !.pc = "rec_daily"])
  /\ UNCHANGED <<cfg, now, daily, weekly, errors, successes, cooldown_until,
                 obsVars, lock, calls, rejected, unguarded, storeVars, appVars>>

RecDaily(t) ==
  /\ th[t].pc = "rec_daily"
  /\ daily' = AppendTs(daily, now)
  /\ SetTh(t, [th[t] EXCEPT !.pc = "rec_weekly"])
  /\ UNCHANGED <<cfg, now, hourly, weekly, errors, successes, cooldown_until,
                 obsVars, lock, calls, rejected, unguarded, storeVars, appVars>>

RecWeekly(t) ==
  /\ th[t].pc = "rec_weekly"
  /\ weekly' = AppendTs(weekly, now)
  /\ SetTh(t, [th[t] EXCEPT !.pc = "rec_list"])
  /\ UNCHANGED <<cfg, now, hourly, daily, errors, successes, cooldown_until,
                 obsVars, lock, calls, rejected, unguarded, storeVars, appVars>>

RecList(t) ==
  /\ th[t].pc = "rec_list"
  /\ IF th[t].kind = "success"
     THEN successes' = Append(successes, th[t].lnow) /\ errors' = errors
     ELSE errors' = Append(errors, th[t].lnow) /\ successes' = successes
  /\ SetTh(t, [th[t] EXCEPT !.pc = "rec_unlock"])
  /\ UNCHANGED <<cfg, now, hourly, daily, weekly, cooldown_until,
                 obsVars, lock, calls, rejected, unguarded, storeVars, appVars>>

\* The record call leaves the lock and the bot method returns (login
\* re-raises after record_error).
RecUnlock(t) ==
  /\ th[t].pc = "rec_unlock"
  /\ lock' = NoThread
  /\ hist' = Append(hist, [t |-> th[t].lnow, kind |-> th[t].kind])
  /\ SetTh(t, Idle)
  /\ UNCHANGED <<monVars, last, tripAt, exceedAt, advances, calls, rejected,
                 unguarded, storeVars, appVars>>

\* get_stats(): take the lock, ask the three limiters for remaining().
GsLock(t) ==
  /\ th[t].pc = "gs_lock"
  /\ LockFree(lock)
  /\ lock' = t
  /\ SetTh(t, [th[t] EXCEPT !.meth = "get_stats", !.pc = "gs_hourly"])
  /\ UNCHANGED <<monVars, obsVars, calls, rejected, unguarded, storeVars, appVars>>

GsHourly(t) ==
  /\ th[t].pc = "gs_hourly"
  /\ hourly' = RL_remaining(hourly, cfg.hourly_limit, HourlyWindow, now).ts
  /\ SetTh(t, [th[t] EXCEPT !.pc = "gs_daily"])
  /\ UNCHANGED <<cfg, now, daily, weekly, errors, successes, cooldown_until,
                 obsVars, lock, calls, rejected, unguarded, storeVars, appVars>>

GsDaily(t) ==
  /\ th[t].pc = "gs_daily"
  /\ daily' = RL_remaining(daily, cfg.daily_limit, DailyWindow, now).ts
  /\ SetTh(t, [th[t] EXCEPT !.pc = "gs_weekly"])
  /\ UNCHANGED <<cfg, now, hourly, weekly, errors, successes, cooldown_until,
                 obsVars, lock, calls, rejected, unguarded, storeVars, appVars>>

GsWeekly(t) ==
  /\ th[t].pc = "gs_weekly"
  /\ weekly' = RL_remaining(weekly, cfg.weekly_limit, WeeklyWindow, now).ts
  /\ SetTh(t, [th[t] EXCEPT !.pc = "er_read_e"])
  /\ UNCHANGED <<cfg, now, hourly, daily, errors, successes, cooldown_until,
                 obsVars, lock, calls, rejected, unguarded, storeVars, appVars>>

GsCool(t) ==
  /\ th[t].pc = "gs_cool"
  /\ SetTh(t, [th[t] EXCEPT !.ret = (cooldown_until # None /\ now < cooldown_until),
                            !.pc = "gs_unlock"])
  /\ UNCHANGED <<monVars, obsVars, lock, calls, rejected, unguarded, storeVars, appVars>>

GsUnlock(t) ==
  /\ th[t].pc = "gs_unlock"
  /\ lock' = NoThread
  /\ SetTh(t, Idle)
  /\ UNCHANGED <<monVars, obsVars, calls, rejected, unguarded, storeVars, appVars>>

\* The clock moves on by an hour while the threads run.
Tick ==
  /\ advances < MaxTicks
  /\ now' = now + HourlyWindow
  /\ advances' = advances + 1
  /\ UNCHANGED <<cfg, hourly, daily, weekly, errors, successes, cooldown_until,
                 hist, last, tripAt, exceedAt, thrVars, storeVars, appVars>>

ThreadStep(t) ==
  \/ \E o \in BotOps : Call(t, o)
  \/ CaLock(t) \/ CaHourly(t) \/ CaDaily(t) \/ CaWeekly(t)
  \/ ErReadE(t) \/ ErWriteE(t) \/ ErReadS(t) \/ ErWriteS(t) \/ ErEval(t)
  \/ CaUnlock(t) \/ CaRet(t) \/ Nav(t) \/ AfterNav(t)
  \/ RecLock(t) \/ RecHourly(t) \/ RecDaily(t) \/ RecWeekly(t)
  \/ RecList(t) \/ RecUnlock(t)
  \/ GsLock(t) \/ GsHourly(t) \/ GsDaily(t) \/ GsWeekly(t)
  \/ GsCool(t) \/ GsUnlock(t)

NextThreads == Tick \/ \E t \in Threads : ThreadStep(t)

\* Limits of one and two actions, so that two callers meet at the last slot.
ThreadConfigs == {Cfg(1, 2, 3, 3, 10, 3600, 1), Cfg(2, 2, 2, 1, 2, 60, 60)}

InitThreads == InitWith(ThreadConfigs, {""})

SpecThreads == InitThreads /\ [][NextThreads]_vars

\* --------------------------------------------------- SpecStore: the steps
\* FeedItemCRUD.upsert.  SQLite takes the next rowid from sqlite_sequence
\* before it finds the conflict, so an update also uses one up; lastrowid is
\* the new rowid after an insert and 0 after an update.
UpsertEffect(a) ==
  /\ nUpserts < MaxUpserts
  /\ nUpserts' = nUpserts + 1
  /\ LET c == ConflictRow(feed_items, a.item_hash)
         id == feed_seq + 1
     IN  /\ feed_seq' = id
         /\ feed_items' = IF c = 0
                          THEN Append(feed_items, InsertedRow(id, a, now))
                          ELSE [feed_items EXCEPT
                                  ![c] = OnConflictUpdate(feed_items[c], a, now)]
         /\ lastUp' = [args |-> a, at |-> now, existed |-> (a.item_hash \in upserted),
                       lastrowid |-> IF c = 0 THEN id ELSE 0]
  /\ upserted' = upserted \cup {a.item_hash}
  /\ firstArgs' = IF a.item_hash \in upserted THEN firstArgs
                  ELSE Append(firstArgs, a)

Upsert(a) ==
  /\ UpsertEffect(a)
  /\ UNCHANGED <<monVars, obsVars, thrVars, appVars>>

\* FeedItemCRUD.mark_saved
MarkSaved(id) ==
  /\ \E i \in DOMAIN feed_items :
       feed_items[i].id = id /\ feed_items[i].saved_to_library = 0
  /\ feed_items' = [i \in DOMAIN feed_items |->
                      IF feed_items[i].id = id
                      THEN [feed_items[i] EXCEPT !.saved_to_library = 1]
                      ELSE feed_items[i]]
  /\ UNCHANGED <<monVars, obsVars, thrVars, feed_seq, upserted, firstArgs,
                 lastUp, nUpserts, appVars>>

\* FeedItemCRUD.count
Count == Len(feed_items)

\* datetime('now') moves on by a second.
StoreTick ==
  /\ now < MaxStoreTime
  /\ now' = now + 1
  /\ UNCHANGED <<cfg, hourly, daily, weekly, errors, successes, cooldown_until,
                 obsVars, thrVars, storeVars, appVars>>

NextStore ==
  \/ \E a \in UpsertArgs : Upsert(a)
  \/ \E id \in 1..MaxUpserts : MarkSaved(id)
  \/ StoreTick

InitStore == InitWith({Cfg(8, 30, 150, 3, 10, 3600, 30)}, {""})

SpecStore == InitStore /\ [][NextStore]_vars

\* --------------------------------------------------- SpecPosts: the steps
\* PostCRUD.create / CommentCRUD.create: AUTOINCREMENT ids, no row is deleted.
PostCreate ==
  /\ Len(posts) + Len(comments) < MaxRows
  /\ posts' = Append(posts, NewPost(Len(posts) + 1, <<>>))
  /\ UNCHANGED <<postFrame, now, comments, email, pub, plast>>

CommentCreate ==
  /\ Len(posts) + Len(comments) < MaxRows
  /\ comments' = Append(comments, NewComment(Len(comments) + 1))
  /\ UNCHANGED <<postFrame, now, posts, email, pub, plast>>

\* PostCRUD.update_status, as any caller of the Store can call it.
PostUpdateStatus(id, status, reason) ==
  /\ posts' = UpdateStatus(posts, id, status, reason, now)
  /\ plast' = StatusCall("posts", posts, id, status, reason, now)
  /\ UNCHANGED <<postFrame, now, comments, email, pub>>

\* PUT /api/posts/{id}/status: 400 for a status outside the four names (no
\* call of the Store, nothing changes), else update_status as given.
ApiUpdatePostStatus(id, status, reason) ==
  /\ status \in {"draft", "approved", "published", "rejected"}
  /\ PostUpdateStatus(id, status, reason)

\* The buttons of _render_post_card, each offered for one status of the post.
UiApprove(id) ==
  /\ \E i \in DOMAIN posts : posts[i].id = id /\ posts[i].status = "draft"
  /\ PostUpdateStatus(id, "approved", Null)

UiReject(id) ==
  /\ \E i \in DOMAIN posts :
       posts[i].id = id /\ posts[i].status \in {"draft", "approved"}
  /\ PostUpdateStatus(id, "rejected", ReasonUI)

UiMarkPosted(id) ==
  /\ \E i \in DOMAIN posts : posts[i].id = id /\ posts[i].status = "approved"
  /\ PostUpdateStatus(id, "published", Null)

UiRepost(id) ==
  /\ \E i \in DOMAIN posts : posts[i].id = id /\ posts[i].status = "published"
  /\ PostUpdateStatus(id, "approved", Null)

UiMoveToDraft(id) ==
  /\ \E i \in DOMAIN posts : posts[i].id = id /\ posts[i].status = "rejected"
  /\ PostUpdateStatus(id, "draft", Null)

\* CommentCRUD.update_status (PUT /api/comments/{id}/status, the UI buttons
\* and the publish endpoints all end here).
CommentUpdateStatus(id, status, reason) ==
  /\ comments' = UpdateStatus(comments, id, status, reason, now)
  /\ plast' = StatusCall("comments", comments, id, status, reason, now)
  /\ UNCHANGED <<postFrame, now, posts, email, pub>>

\* POST /api/posts/{id}/publish, up to the browser session: 404, 400 (status
\* or credentials), else go on.
PubBegin(id) ==
  /\ pub.pc = "idle"
  /\ LET i == GetRow(posts, id)
         req == [NoRequest EXCEPT !.id = id]
     IN  pub' = IF i = 0
                THEN [req EXCEPT !.pc = "done", !.outcome = "404"]
                ELSE IF posts[i].status # "approved"
                     THEN [req EXCEPT !.pc = "done", !.outcome = "400"]
                     ELSE IF email = ""
                          THEN [req EXCEPT !.pc = "done", !.outcome = "400"]
                          ELSE [req EXCEPT !.pc = "browser"]
  /\ UNCHANGED <<postFrame, now, posts, comments, email, plast>>

\* _do(): login and publish_post raise, or publish_post returns false, or it
\* returns true and get_my_latest_post_url finds a URL or none.
PubBrowser ==
  /\ pub.pc = "browser"
  /\ \/ pub' = [pub EXCEPT !.pc = "done", !.outcome = "500"]
     \/ pub' = [pub EXCEPT !.pc = "done", !.outcome = "502"]
     \/ \E u \in PostUrls : pub' = [pub EXCEPT !.pc = "update", !.post_url = u]
  /\ UNCHANGED <<postFrame, now, posts, comments, email, plast>>

\* post_crud.update_status(post_id, "published"): its own transaction; the
\* statement raises (database locked, disk full) or commits.
PubUpdateStatus ==
  /\ pub.pc = "update"
  /\ \/ /\ pub' = [pub EXCEPT !.pc = "done", !.outcome = "500"]
        /\ UNCHANGED <<posts, plast>>
     \/ /\ posts' = UpdateStatus(posts, pub.id, "published", Null, now)
        /\ plast' = StatusCall("posts", posts, pub.id, "published", Null, now)
        /\ pub' = [pub EXCEPT !.pc = IF pub.post_url # Null THEN "seturl"
                                      ELSE "log",
                              !.wrote = @ \cup {"status"}]
  /\ UNCHANGED <<postFrame, now, comments, email>>

\* post_crud.set_linkedin_url(post_id, post_url): a second transaction.
PubSetUrl ==
  /\ pub.pc = "seturl"
  /\ \/ /\ pub' = [pub EXCEPT !.pc = "done", !.outcome = "500"]
        /\ UNCHANGED posts
     \/ /\ posts' = SetLinkedinUrl(posts, pub.id, pub.post_url)
        /\ pub' = [pub EXCEPT !.pc = "log", !.wrote = @ \cup {"linkedin_url"}]
  /\ UNCHANGED <<postFrame, now, comments, email, plast>>

\* log_crud.log("publish_post", ...): a third transaction, then the 200.
PubLog ==
  /\ pub.pc = "log"
  /\ \/ pub' = [pub EXCEPT !.pc = "done", !.outcome = "500"]
     \/ pub' = [pub EXCEPT !.pc = "done", !.outcome = "ok"]
  /\ UNCHANGED <<postFrame, now, posts, comments, email, plast>>

\* The response is sent.
PubEnd ==
  /\ pub.pc = "done"
  /\ pub' = NoRequest
  /\ UNCHANGED <<postFrame, now, posts, comments, email, plast>>

\* datetime('now') moves on by a second.
PostTick ==
  /\ now < MaxPostTime
  /\ now' = now + 1
  /\ UNCHANGED <<postFrame, postVars>>

NextPosts ==
  \/ PostCreate
  \/ CommentCreate
  \/ \E id \in 1..MaxRows : \E a \in StatusArgs :
       PostUpdateStatus(id, a[1], a[2])
  \/ \E id \in 1..MaxRows : \E a \in StatusArgs :
       ApiUpdatePostStatus(id, a[1], a[2])
  \/ \E id \in 1..MaxRows :
       \/ UiApprove(id)
       \/ UiReject(id)
       \/ UiMarkPosted(id)
       \/ UiRepost(id)
       \/ UiMoveToDraft(id)
       \/ PubBegin(id)
  \/ \E id \in 1..MaxRows : \E a \in StatusArgs :
       CommentUpdateStatus(id, a[1], a[2])
  \/ PubBrowser
  \/ PubUpdateStatus
  \/ PubSetUrl
  \/ PubLog
  \/ PubEnd
  \/ PostTick

\* LINKEDIN_EMAIL is set or not when the server starts.
Emails == {"", "me@example.com"}

InitPosts == InitWith({Cfg(8, 30, 150, 3, 10, 3600, 30)}, Emails)

SpecPosts == InitPosts /\ [][NextPosts]_vars

\* ---------------------------------------------------- SpecLive: the steps
\* record_action / record_error during the first minutes only; after them
\* the monitor is left alone.
LiveRecord(kind) ==
  /\ now < MaxLiveMinutes * SecondsPerMinute
  /\ Record(kind)

\* The clock moves on by a minute, an hour or a week, until every window
\* and every cooldown that a record of the first minutes can cause is over.
LiveDeltas == {SecondsPerMinute, HourlyWindow, WeeklyWindow}

LiveHorizon == WeeklyWindow + HourlyWindow + MaxLiveMinutes * SecondsPerMinute

LiveAdvance(dt) ==
  /\ now < LiveHorizon
  /\ dt = SecondsPerMinute => now < MaxLiveMinutes * SecondsPerMinute
  /\ dt = HourlyWindow => now < MaxLiveHours * HourlyWindow
  /\ now' = now + dt
  /\ last' = NoCall
  /\ UNCHANGED <<cfg, hourly, daily, weekly, errors, successes, cooldown_until,
                 hist, tripAt, exceedAt, advances, thrVars, storeVars, appVars>>

LiveTime == \E dt \in LiveDeltas : LiveAdvance(dt)

NextLive ==
  \/ \E kind \in AnyKind : LiveRecord(kind)
  \/ LiveTime
  \/ CanAct

\* Time passes, and the caller keeps polling can_act().
SpecLive ==
  Init /\ [][NextLive]_vars /\ WF_vars(LiveTime) /\ WF_vars(CanAct)

\* ------------------------------------------------- SpecPublish: the steps
reqFrame == <<monState, obsVars, thrVars, storeVars, fbVars, rankVars,
              aggVars, trainVars, scorer, tx, sched, gen, now, comments,
              email, pub>>

\* publish_post up to the await: post_crud.get, 404, 400 (status or
\* credentials), else the browser work is handed to a thread and the event
\* loop is free for the next request.
StatusGate(status) == status = "approved"

ReqBegin(r, id) ==
  /\ reqs[r].pc = "idle"
  /\ LET i == GetRow(posts, id)
         req == [NoPublish EXCEPT !.id = id]
     IN  reqs' = [reqs EXCEPT ![r] =
                    IF i = 0
                    THEN [req EXCEPT !.pc = "done", !.outcome = "404"]
                    ELSE IF ~StatusGate(posts[i].status)
                         THEN [req EXCEPT !.pc = "done", !.outcome = "400"]
                         ELSE IF email = ""
                              THEN [req EXCEPT !.pc = "done", !.outcome = "400"]
                              ELSE [req EXCEPT !.pc = "browser"]]
  /\ UNCHANGED <<reqFrame, posts, plast>>

\* _do() in its thread: the browser does not start or publish_post raises
\* (500), publish_post returns false (502), or the post is on LinkedIn.
ReqBrowser(r) ==
  /\ reqs[r].pc = "browser"
  /\ \/ reqs' = [reqs EXCEPT ![r].pc = "done", ![r].outcome = "500"]
     \/ reqs' = [reqs EXCEPT ![r].pc = "done", ![r].outcome = "502"]
     \/ \E u \in PostUrls :
          reqs' = [reqs EXCEPT ![r].pc = "update", ![r].post_url = u,
                               ![r].posted = TRUE]
  /\ UNCHANGED <<reqFrame, posts, plast>>

\* Back on the event loop, without another await: update_status,
\* set_linkedin_url and the log, each its own transaction; the first that
\* raises ends the request with 500.
ReqRecord(r) ==
  /\ reqs[r].pc = "update"
  /\ \/ /\ reqs' = [reqs EXCEPT ![r].pc = "done", ![r].outcome = "500"]
        /\ UNCHANGED <<posts, plast>>
     \/ \E seturl \in BOOLEAN : \E outcome \in {"500", "ok"} :
          LET updated == UpdateStatus(posts, reqs[r].id, "published", Null,
                                      now)
              url == reqs[r].post_url
          IN  /\ seturl => url # Null
              /\ (url # Null /\ ~seturl) => outcome = "500"
              /\ posts' = IF seturl
                          THEN SetLinkedinUrl(updated, reqs[r].id, url)
                          ELSE updated
              /\ plast' = StatusCall("posts", posts, reqs[r].id, "published",
                                     Null, now)
              /\ reqs' = [reqs EXCEPT ![r].pc = "done",
                                      ![r].outcome = outcome]
  /\ UNCHANGED reqFrame

NextPublish ==
  \/ PostCreate
  \/ \E id \in 1..MaxRows : UiApprove(id)
  \/ \E r \in Requests : \E id \in 1..MaxRows : ReqBegin(r, id)
  \/ \E r \in Requests : ReqBrowser(r)
  \/ \E r \in Requests : ReqRecord(r)
  \/ PostTick

InitPublish ==
  /\ InitBase({Cfg(8, 30, 150, 3, 10, 3600, 30)}, Emails)
  /\ RankIdle /\ AggIdle /\ TrainIdle /\ ScoreIdle /\ TxIdle /\ SchedIdle
  /\ GenIdle
  /\ reqs = [r \in Requests |-> NoPublish]

SpecPublish == InitPublish /\ [][NextPublish]_vars

\* --------------------------------------------------- SpecSched: the steps
schedFrame == <<cfg, obsVars, thrVars, storeVars, postVars, fbVars, rankVars,
                aggVars, trainVars, scorer, tx, reqs, gen>>

Snapshot(h, d, w, e, s, cu) ==
  [hourly |-> h, daily |-> d, weekly |-> w, errors |-> e, successes |-> s,
   cooldown_until |-> cu]

\* _safe_post_callback / _safe_comment_callback: the callback is called when
\* can_act() returned true and a callback is set.
RunsCallback_unguarded(permitted, is_set) == is_set

RunsCallback(permitted, is_set) == permitted /\ is_set

\* A job fires: safety.can_act(), then return, or nothing to call, or on to
\* the callback.
SchedTick(job) ==
  /\ sched.tick.pc = "idle"
  /\ sched.tick.ticks < MaxSchedTicks
  /\ LET r == SM_can_act(hourly, daily, weekly, errors, successes,
                         cooldown_until, cfg, now)
         runs == RunsCallback(r.ret, job \in sched.callbacks)
     IN  /\ hourly' = r.hourly /\ daily' = r.daily /\ weekly' = r.weekly
         /\ errors' = r.errors /\ successes' = r.successes
         /\ cooldown_until' = r.cooldown_until
         /\ sched' = [sched EXCEPT !.tick =
              [pc |-> IF runs THEN "callback" ELSE "idle",
               job |-> job, permitted |-> r.ret, ran |-> runs,
               outcome |-> IF runs THEN "running" ELSE "skipped",
               after_can_act |-> Snapshot(r.hourly, r.daily, r.weekly,
                                          r.errors, r.successes,
                                          r.cooldown_until),
               ticks |-> sched.tick.ticks + 1]]
  /\ UNCHANGED <<schedFrame, now>>

\* The callback returns: nothing more is done.
SchedCallbackReturn ==
  /\ sched.tick.pc = "callback"
  /\ sched' = [sched EXCEPT !.tick.pc = "idle", !.tick.outcome = "returned"]
  /\ UNCHANGED <<schedFrame, monState, now>>

\* The callback raises an Exception: logged, safety.record_error().
SchedCallbackRaise ==
  /\ sched.tick.pc = "callback"
  /\ LET r == SM_record(hourly, daily, weekly, errors, successes, "error", now)
     IN  /\ hourly' = r.hourly /\ daily' = r.daily /\ weekly' = r.weekly
         /\ errors' = r.errors /\ successes' = r.successes
  /\ sched' = [sched EXCEPT !.tick.pc = "idle", !.tick.outcome = "caught"]
  /\ UNCHANGED <<schedFrame, cooldown_until, now>>

NextSched ==
  \/ \E job \in Jobs : SchedTick(job)
  \/ SchedCallbackReturn
  \/ SchedCallbackRaise
  \/ Advance

\* cmd_run sets both callbacks; a scheduler with only the post callback set
\* is the other case.
InitSched ==
  /\ InitBase(Configs, {""})
  /\ RankIdle /\ AggIdle /\ TrainIdle /\ ScoreIdle /\ TxIdle /\ ReqIdle
  /\ GenIdle
  /\ \E cbs \in {Jobs, {"post"}} : sched = [NoSched EXCEPT !.callbacks = cbs]

SpecSched == InitSched /\ [][NextSched]_vars

\* ----------------------------------------------------- SpecGen: the steps
genFrame == <<baseVars, postVars, fbVars, rankVars, aggVars, trainVars,
              scorer, tx, reqs, sched>>

\* One pass of the loop: generate_with_confidence, validate_comment; a valid
\* comment or the last attempt ends the loop.
GenAttempt(raw, valid) ==
  /\ gen.pc \in {"idle", "retry"}
  /\ gen' = [gen EXCEPT
               !.pc = IF valid \/ gen.attempt = MaxRetries THEN "built"
                      ELSE "retry",
               !.attempt = @ + 1,
               !.result = ParseConfidence(raw)]
  /\ UNCHANGED genFrame

\* A provider whose GenerationResult carries no confidence.
GenAttemptNoConfidence(valid) ==
  /\ gen.pc \in {"idle", "retry"}
  /\ gen' = [gen EXCEPT
               !.pc = IF valid \/ gen.attempt = MaxRetries THEN "built"
                      ELSE "retry",
               !.attempt = @ + 1,
               !.result = [reported |-> FALSE, confidence |-> None]]
  /\ UNCHANGED genFrame

\* The dict returned: "confidence": result.confidence or 0.5.
GenReturn ==
  /\ gen.pc = "built"
  /\ gen' = [gen EXCEPT !.pc = "returned",
                        !.returned = OrDefault(gen.result.confidence)]
  /\ UNCHANGED genFrame

NextGen ==
  \/ \E raw \in RawTexts : \E valid \in BOOLEAN : GenAttempt(raw, valid)
  \/ \E valid \in BOOLEAN : GenAttemptNoConfidence(valid)
  \/ GenReturn

InitGen ==
  /\ InitBase({Cfg(8, 30, 150, 3, 10, 3600, 30)}, {""})
  /\ RankIdle /\ AggIdle /\ TrainIdle /\ ScoreIdle /\ TxIdle /\ ReqIdle
  /\ SchedIdle
  /\ gen = NoGen

SpecGen == InitGen /\ [][NextGen]_vars

\* ------------------------------------------------------ SpecTx: the steps
txFrame == <<monState, obsVars, thrVars, storeVars, fbVars, rankVars, aggVars,
             trainVars, scorer, reqs, sched, gen, now, email, pub>>

\* update_status of PostCRUD or CommentCRUD inside Database.connect.
TxUpdateStatus(tbl, id, status, reason) ==
  LET rows == IF tbl = "posts" THEN posts ELSE comments
      raised == CheckViolated(rows, id, status)
      after == Connect(rows, UpdateStatus(rows, id, status, reason, now),
                       raised)
  IN  /\ posts' = IF tbl = "posts" THEN after ELSE posts
      /\ comments' = IF tbl = "comments" THEN after ELSE comments
      /\ plast' = StatusCall(tbl, rows, id, status, reason, now)
      /\ tx' = [tbl |-> tbl, id |-> id, status |-> status, before |-> rows,
                after |-> after, raised |-> raised]
      /\ UNCHANGED txFrame

NextTx ==
  \/ PostCreate
  \/ CommentCreate
  \/ \E tbl \in {"posts", "comments"} : \E id \in 1..MaxRows :
       \E a \in StatusArgs : TxUpdateStatus(tbl, id, a[1], a[2])
  \/ PostTick

InitTx ==
  /\ InitBase({Cfg(8, 30, 150, 3, 10, 3600, 30)}, Emails)
  /\ RankIdle /\ AggIdle /\ TrainIdle /\ ScoreIdle /\ ReqIdle /\ SchedIdle
  /\ GenIdle
  /\ tx = NoTx

SpecTx == InitTx /\ [][NextTx]_vars

\* ------------------------------------------------ SpecFeedback: the steps
fbIdle == <<monState, obsVars, thrVars, comments, email, pub, upserted,
            firstArgs, lastUp, nUpserts, contentVars>>

\* FeedItemCRUD.upsert of one of the items of this part.
FbUpsert(a) ==
  /\ feed_seq < MaxUpserts
  /\ LET c == ConflictRow(feed_items, a.item_hash)
         id == feed_seq + 1
     IN  /\ feed_seq' = id
         /\ feed_items' = IF c = 0
                          THEN Append(feed_items, InsertedRow(id, a, now))
                          ELSE [feed_items EXCEPT
                                  ![c] = OnConflictUpdate(feed_items[c], a, now)]
  /\ tdata' = NoData
  /\ UNCHANGED <<fbIdle, now, posts, plast, user_feedback, content_library,
                 lib_seq, fmap, flast>>

\* ContentLibraryCRUD.add
LibAdd(source) ==
  /\ lib_seq < MaxDocs
  /\ lib_seq' = lib_seq + 1
  /\ content_library' = Append(content_library, NewDoc(lib_seq + 1, source))
  /\ tdata' = NoData
  /\ UNCHANGED <<fbIdle, now, feed_items, feed_seq, posts, plast,
                 user_feedback, fmap, flast>>

\* ContentLibraryCRUD.update_generated_post
UpdateGeneratedPost(doc, post) ==
  /\ \E i \in DOMAIN content_library : content_library[i].id = doc
  /\ content_library' =
       [i \in DOMAIN content_library |->
          IF content_library[i].id = doc
          THEN [content_library[i] EXCEPT !.generated_post = post]
          ELSE content_library[i]]
  /\ tdata' = NoData
  /\ UNCHANGED <<fbIdle, now, feed_items, feed_seq, posts, plast,
                 user_feedback, lib_seq, fmap, flast>>

\* ContentLibraryCRUD.delete
LibDelete(doc) ==
  /\ \E i \in DOMAIN content_library : content_library[i].id = doc
  /\ content_library' = SelectSeq(content_library, LAMBDA r : r.id # doc)
  /\ tdata' = NoData
  /\ UNCHANGED <<fbIdle, now, feed_items, feed_seq, posts, plast,
                 user_feedback, lib_seq, fmap, flast>>

\* POST /api/library/{doc_id}/to-queue: 404 without the document, 400 without
\* a generated post, else a draft post with rag_sources = [doc_id].
ToQueue(doc) ==
  /\ Len(posts) + Len(comments) < MaxRows
  /\ \E i \in DOMAIN content_library :
       /\ content_library[i].id = doc
       /\ Truthy(content_library[i].generated_post)
  /\ posts' = Append(posts, NewPost(Len(posts) + 1, <<doc>>))
  /\ UNCHANGED <<fbIdle, now, feed_items, feed_seq, plast, fbVars>>

\* FeedbackCRUD.set_feedback and the record of the call.
SetFeedback(id, h, label) ==
  /\ user_feedback' = SetFeedbackRows(user_feedback, id, h, label, now)
  /\ flast' = [called |-> TRUE, id |-> id, item_hash |-> h, label |-> label]
  /\ fmap' = NoMap
  /\ tdata' = NoData

\* POST /api/feed/{item_id}/feedback: 400 for another label, 404 without the
\* feed item, else set_feedback with the item_hash read from the item.
ApiSetFeedback(item_id, label) ==
  /\ label \in {"liked", "disliked"}
  /\ \E i \in DOMAIN feed_items :
       /\ feed_items[i].id = item_id
       /\ SetFeedback(item_id, feed_items[i].item_hash, label)
  /\ UNCHANGED <<fbIdle, now, feed_items, feed_seq, posts, plast,
                 content_library, lib_seq>>

\* _save_feedback of the feed view: the id of the stored item, or of the
\* upsert when the item is not stored yet, then set_feedback.
UiSaveFeedback(a, label) ==
  LET c == ConflictRow(feed_items, a.item_hash)
  IN  /\ IF c # 0
         THEN /\ SetFeedback(feed_items[c].id, a.item_hash, label)
              /\ UNCHANGED <<feed_items, feed_seq>>
         ELSE /\ feed_seq < MaxUpserts
              /\ feed_seq' = feed_seq + 1
              /\ feed_items' = Append(feed_items,
                                      InsertedRow(feed_seq + 1, a, now))
              /\ SetFeedback(feed_seq + 1, a.item_hash, label)
      /\ UNCHANGED <<fbIdle, now, posts, plast, content_library, lib_seq>>

\* FeedbackCRUD.get_feedback_map
GetFeedbackMapCall ==
  /\ fmap' = [read |-> TRUE, map |-> GetFeedbackMap(user_feedback)]
  /\ UNCHANGED <<fbIdle, now, feed_items, feed_seq, posts, plast,
                 user_feedback, content_library, lib_seq, tdata, flast>>

\* FeedbackCRUD.get_all_training_data
ReadTrainingData ==
  /\ tdata' = [read |-> TRUE,
               rows |-> GetAllTrainingData(user_feedback, feed_items,
                                           content_library)]
  /\ UNCHANGED <<fbIdle, now, feed_items, feed_seq, posts, plast,
                 user_feedback, content_library, lib_seq, fmap, flast>>

NextFeedback ==
  \/ \E a \in FeedArgs : FbUpsert(a)
  \/ \E id \in 1..MaxUpserts : \E l \in Labels : ApiSetFeedback(id, l)
  \/ \E a \in FeedArgs : \E l \in Labels : UiSaveFeedback(a, l)
  \/ GetFeedbackMapCall

InitFeedback == InitWith({Cfg(8, 30, 150, 3, 10, 3600, 30)}, {""})

SpecFeedback == InitFeedback /\ [][NextFeedback]_vars

NextTraining ==
  \/ \E a \in FeedArgs : FbUpsert(a)
  \/ \E src \in LibSources : LibAdd(src)
  \/ \E doc \in 1..MaxDocs : \E g \in GeneratedPosts :
       UpdateGeneratedPost(doc, g)
  \/ \E doc \in 1..MaxDocs : LibDelete(doc)
  \/ \E doc \in 1..MaxDocs : ToQueue(doc)
  \/ \E id \in 1..MaxRows : UiApprove(id) \/ UiMarkPosted(id)
  \/ \E id \in 1..MaxUpserts : \E l \in Labels : ApiSetFeedback(id, l)
  \/ \E a \in FeedArgs : \E l \in Labels : UiSaveFeedback(a, l)
  \/ ReadTrainingData

SpecTraining == InitFeedback /\ [][NextTraining]_vars

\* ---------------------------------------------------- SpecRank: the steps
\* ContentFilter.filter_and_rank(items, max_results)
FilterAndRankCall ==
  /\ ~rout.done
  /\ rout' = [done |-> TRUE,
              ranked |-> FilterAndRank(rin.items, rin.min_score_threshold,
                                       rin.max_results)]
  /\ UNCHANGED <<baseVars, postVars, fbVars, rin, aggVars, trainVars, extraVars>>

NextRank == FilterAndRankCall

InitRank ==
  /\ InitBase({Cfg(8, 30, 150, 3, 10, 3600, 30)}, {""})
  /\ rin \in RankInputs
  /\ rout = NoResult
  /\ AggIdle
  /\ TrainIdle
  /\ ExtraIdle

SpecRank == InitRank /\ [][NextRank]_vars

\* ----------------------------------------------------- SpecAgg: the steps
aggFrame == <<monState, hist, last, tripAt, exceedAt, thrVars, storeVars,
              postVars, fbVars, rankVars, max_items_per_feed, trainVars, extraVars>>

\* fetch_all(priorities), alone or as the first line of fetch_and_filter
FetchAllBegin(priorities, filter) ==
  /\ run.pc = "idle"
  /\ run' = [NoRun EXCEPT !.pc = "loop", !.filter = filter,
                          !.feeds = FeedsToFetch(priorities),
                          !.todo = FeedsToFetch(priorities)]
  /\ UNCHANGED <<aggFrame, now, advances, cache>>

\* fetch_feed(source) up to the request: time.time() is read, a fresh cache
\* entry is returned as it is.
FeedBegin ==
  /\ run.pc = "loop" /\ run.todo # <<>>
  /\ LET source == Head(run.todo)
         entry == cache[source.url]
     IN  IF CacheFresh(entry, now)
         THEN run' = [run EXCEPT
                        !.todo = Tail(@),
                        !.all_items = @ \o entry.items,
                        !.log = Append(@, [url |-> source.url, at |-> now,
                                           before |-> entry,
                                           requested |-> FALSE,
                                           outcome |-> "hit",
                                           items |-> entry.items])]
         ELSE run' = [run EXCEPT !.pc = "fetch", !.t0 = now]
  /\ UNCHANGED <<aggFrame, now, advances, cache>>

\* The request of fetch_feed fails or parses nothing: the RSS branch returns
\* [] without touching the cache when there is no answer and caches [] when
\* the answer does not parse; the API branch caches [] in both cases; any
\* other exception leaves fetch_feed.
FeedFail(outcome) ==
  /\ run.pc = "fetch"
  /\ LET source == Head(run.todo)
         entry == [url |-> source.url, at |-> run.t0,
                   before |-> cache[source.url], requested |-> TRUE,
                   outcome |-> outcome, items |-> <<>>]
         logged == [run EXCEPT !.log = Append(@, entry)]
     IN  IF outcome = "raise"
         THEN /\ run' = OnFeedError(logged)
              /\ UNCHANGED cache
         ELSE /\ run' = [logged EXCEPT !.pc = "loop", !.todo = Tail(@)]
              /\ cache' = IF outcome = "unreachable"
                             /\ source.source_type # "api"
                          THEN cache
                          ELSE [cache EXCEPT ![source.url] =
                                  [time |-> run.t0, items |-> <<>>]]
  /\ UNCHANGED <<aggFrame, now, advances>>

\* The request of fetch_feed is answered and parsed: the items are cut to
\* max_items_per_feed and cached with the time read at the start.
FeedOk(payload) ==
  /\ run.pc = "fetch"
  /\ LET source == Head(run.todo)
         items == SliceTo(Parse(payload, source), max_items_per_feed)
     IN  /\ cache' = [cache EXCEPT ![source.url] =
                        [time |-> run.t0, items |-> items]]
         /\ run' = [run EXCEPT
                      !.pc = "loop",
                      !.todo = Tail(@),
                      !.all_items = @ \o items,
                      !.log = Append(@, [url |-> source.url, at |-> run.t0,
                                         before |-> cache[source.url],
                                         requested |-> TRUE,
                                         outcome |-> "ok",
                                         items |-> items])]
  /\ UNCHANGED <<aggFrame, now, advances>>

\* The loop is over: fetch_all returns all_items, fetch_and_filter returns
\* filter_and_rank of them.
FetchAllEnd(max_results) ==
  /\ run.pc = "loop" /\ run.todo = <<>>
  /\ run' = [run EXCEPT
               !.pc = "done",
               !.result = IF run.filter
                          THEN FilterAndRank(Scored(run.all_items),
                                             AggThreshold, max_results)
                          ELSE run.all_items]
  /\ UNCHANGED <<aggFrame, now, advances, cache>>

\* The caller has the result.
AggReturn ==
  /\ run.pc \in {"done", "failed"}
  /\ run' = NoRun
  /\ UNCHANGED <<aggFrame, now, advances, cache>>

\* time.time() moves on, by a second or by a second less than the TTL.
AggTick ==
  /\ advances < MaxAggTicks
  /\ advances' = advances + 1
  /\ \E dt \in {1, CacheTtl - 1} : now' = now + dt
  /\ UNCHANGED <<aggFrame, cache, run>>

NextAgg ==
  \/ \E p \in PriorityArgs : \E f \in BOOLEAN : FetchAllBegin(p, f)
  \/ FeedBegin
  \/ \E o \in FetchFailures : FeedFail(o)
  \/ \E p \in FeedPayloads : FeedOk(p)
  \/ \E m \in 1..MaxItems : FetchAllEnd(m)
  \/ AggReturn
  \/ AggTick

InitAgg ==
  /\ InitBase({Cfg(8, 30, 150, 3, 10, 3600, 30)}, {""})
  /\ RankIdle
  /\ max_items_per_feed \in {1, 20}
  /\ cache = [u \in Urls |-> NoEntry]
  /\ run = NoRun
  /\ TrainIdle
  /\ ExtraIdle

SpecAgg == InitAgg /\ [][NextAgg]_vars

\* ------------------------------------------------- SpecReranker: the steps
\* FeedReranker.train(training_data, feedback_map).  Below the minimum it
\* returns at once.  Otherwise fit or save_model raises (nothing is written),
\* or the model is saved and kept and writing the stats file raises, or all
\* of it succeeds.
Train(training_data, feedback_map, outcome) ==
  LET labels == TrainLabels(training_data, feedback_map)
      call == [NoTrain EXCEPT !.called = TRUE,
                              !.training_data = training_data,
                              !.feedback_map = feedback_map]
  IN  /\ IF Insufficient(Len(labels), reranker.min_training_samples)
         THEN /\ outcome = "ok"
              /\ tret' = [call EXCEPT
                            !.ret = [status |-> "insufficient_data",
                                     samples |-> Len(labels),
                                     min_required |->
                                       reranker.min_training_samples]]
              /\ UNCHANGED <<reranker, rfiles>>
         ELSE CASE outcome = "fit_error" ->
                     /\ tret' = [call EXCEPT !.raised = TRUE]
                     /\ UNCHANGED <<reranker, rfiles>>
                [] outcome = "stats_error" ->
                     /\ tret' = [call EXCEPT !.raised = TRUE]
                     /\ reranker' = [reranker EXCEPT
                                       !.model = Fitted(labels),
                                       !.stats = TrainedStats(labels)]
                     /\ rfiles' = [rfiles EXCEPT !.model = Fitted(labels)]
                [] outcome = "ok" ->
                     /\ tret' = [call EXCEPT !.ret = TrainedStats(labels)]
                     /\ reranker' = [reranker EXCEPT
                                       !.model = Fitted(labels),
                                       !.stats = TrainedStats(labels)]
                     /\ rfiles' = [model |-> Fitted(labels),
                                   stats |-> TrainedStats(labels)]
      /\ UNCHANGED <<baseVars, postVars, fbVars, rankVars, aggVars, tjob, peer, extraVars>>

\* FeedReranker(...): a new object, _load_model() reads the files if the
\* model file is there.
LoadModel ==
  /\ reranker' = [reranker EXCEPT
                    !.model = rfiles.model,
                    !.stats = IF rfiles.model # NoModel THEN rfiles.stats
                              ELSE NotTrained]
  /\ tret' = NoTrain
  /\ UNCHANGED <<baseVars, postVars, fbVars, rankVars, aggVars, rfiles,
                 tjob, peer, extraVars>>

TrainOutcomes == {"ok", "fit_error", "stats_error"}

NextReranker ==
  \/ \E d \in TrainData : \E m \in FeedbackMaps : \E o \in TrainOutcomes :
       Train(d, m, o)
  \/ LoadModel

InitReranker ==
  /\ InitBase({Cfg(8, 30, 150, 3, 10, 3600, 30)}, {""})
  /\ RankIdle
  /\ AggIdle
  /\ \E n \in MinSamples :
       reranker = [min_training_samples |-> n, model |-> NoModel,
                   stats |-> NotTrained]
  /\ rfiles = [model |-> NoModel, stats |-> NotTrained]
  /\ tret = NoTrain
  /\ tjob = NoJob
  /\ peer = NoModel
  /\ ExtraIdle

SpecReranker == InitReranker /\ [][NextReranker]_vars

\* ---------------------------------------------------- SpecSave: the steps
\* of one train() call that has enough rows, with the process dying and
\* another FeedReranker loading the model in between.
saveFrame == <<baseVars, postVars, fbVars, rankVars, aggVars, tret,
               extraVars>>

\* train() up to fit: the labels are built and there are enough of them.
SaveTrainBegin(training_data, feedback_map) ==
  /\ tjob.pc = "idle"
  /\ LET labels == TrainLabels(training_data, feedback_map)
     IN  /\ ~Insufficient(Len(labels), reranker.min_training_samples)
         /\ tjob' = [pc |-> "fit", labels |-> labels]
  /\ UNCHANGED <<saveFrame, reranker, rfiles, peer>>

\* model.fit(...) raises or returns.
SaveFit ==
  /\ tjob.pc = "fit"
  /\ tjob' \in {NoJob, [tjob EXCEPT !.pc = "save"]}
  /\ UNCHANGED <<saveFrame, reranker, rfiles, peer>>

\* model.save_model(self.model_path) opens the file at model_path itself for
\* writing, or fails to.
SaveOpen ==
  /\ tjob.pc = "save"
  /\ \/ tjob' = NoJob /\ UNCHANGED rfiles
     \/ /\ tjob' = [tjob EXCEPT !.pc = "writing"]
        /\ rfiles' = [rfiles EXCEPT !.model = PartialModel]
  /\ UNCHANGED <<saveFrame, reranker, peer>>

\* save_model writes the model out and returns, then "self._model = model";
\* or the write fails half way.
SaveWrite ==
  /\ tjob.pc = "writing"
  /\ \/ tjob' = NoJob /\ UNCHANGED <<reranker, rfiles>>
     \/ /\ tjob' = [tjob EXCEPT !.pc = "stats"]
        /\ rfiles' = [rfiles EXCEPT !.model = Fitted(tjob.labels)]
        /\ reranker' = [reranker EXCEPT !.model = Fitted(tjob.labels)]
  /\ UNCHANGED <<saveFrame, peer>>

\* self._stats and the stats file, then train() returns.
SaveStats ==
  /\ tjob.pc = "stats"
  /\ tjob' = NoJob
  /\ reranker' = [reranker EXCEPT !.stats = TrainedStats(tjob.labels)]
  /\ rfiles' = [rfiles EXCEPT !.stats = TrainedStats(tjob.labels)]
  /\ UNCHANGED <<saveFrame, peer>>

\* The process dies inside train() and is started again: FeedReranker()
\* loads what is on disk.
SaveCrash ==
  /\ tjob.pc # "idle"
  /\ tjob' = NoJob
  /\ reranker' = [reranker EXCEPT
                    !.model = LoadedModel(rfiles.model),
                    !.stats = IF rfiles.model # NoModel THEN rfiles.stats
                              ELSE NotTrained]
  /\ UNCHANGED <<saveFrame, rfiles, peer>>

\* Another process constructs a FeedReranker on the same model_path.
PeerLoad ==
  /\ peer' = LoadedModel(rfiles.model)
  /\ UNCHANGED <<saveFrame, reranker, rfiles, tjob>>

NextSave ==
  \/ \E d \in TrainData : \E m \in FeedbackMaps : SaveTrainBegin(d, m)
  \/ SaveFit
  \/ SaveOpen
  \/ SaveWrite
  \/ SaveStats
  \/ SaveCrash
  \/ PeerLoad

SpecSave == InitReranker /\ [][NextSave]_vars

\* -------------------------------------------------- SpecRerank: the steps
\* FeedReranker.rerank(items)
RerankCall ==
  /\ ~rout.done
  /\ rout' = [done |-> TRUE,
              ranked |-> Rerank(rin.items, rin.trained, rin.prediction)]
  /\ UNCHANGED <<baseVars, postVars, fbVars, rin, aggVars, trainVars, extraVars>>

InitRerank ==
  /\ InitBase({Cfg(8, 30, 150, 3, 10, 3600, 30)}, {""})
  /\ rin \in RerankInputs
  /\ rout = NoResult
  /\ AggIdle
  /\ TrainIdle
  /\ ExtraIdle

SpecRerank == InitRerank /\ [][RerankCall]_vars

\* --------------------------------------------------- SpecFresh / SpecScore
scoreFrame == <<baseVars, postVars, fbVars, rankVars, aggVars, trainVars, tx,
               reqs, sched, gen>>

\* score(title, content, published_at=...) in process p on day t.
ScoreCall(text, published_at, p, t) ==
  /\ Len(scorer.calls) < MaxScoreCalls
  /\ scorer' = [scorer EXCEPT
                  !.calls = Append(@,
                    [text |-> text, published_at |-> published_at,
                     proc |-> p, at |-> t,
                     ret |-> Score(text, published_at, scorer.order[p], t)])]
  /\ UNCHANGED scoreFrame

\* One call on any day of the first MaxAgeMonths months after the date.
FreshnessCall(text, published_at, t) ==
  /\ scorer.calls = <<>>
  /\ ScoreCall(text, published_at, 1, t)

InitScore ==
  /\ InitBase({Cfg(8, 30, 150, 3, 10, 3600, 30)}, {""})
  /\ RankIdle /\ AggIdle /\ TrainIdle /\ TxIdle /\ ReqIdle /\ SchedIdle
  /\ GenIdle
  /\ \E o \in [Procs -> KeywordOrders] : scorer = [NoScorer EXCEPT !.order = o]

SpecFresh ==
  InitScore
  /\ [][\E x \in Texts : \E d \in DateStrings :
          \E t \in 0..(30 * MaxAgeMonths) : FreshnessCall(x, d, t)]_vars

\* Two days, two months apart.
ScoreDays == {0, 60}

SpecScore ==
  InitScore
  /\ [][\E x \in Texts : \E d \in DateStrings : \E p \in Procs :
          \E t \in ScoreDays : ScoreCall(x, d, p, t)]_vars

TypeOK ==
  /\ now \in Nat
  /\ cooldown_until \in Nat \cup {None}
  /\ Len(hist) <= MaxRecords

\* ================================================================= claims
\* C1: can_act() returns true exactly when the monitor is not in cooldown
\* (cooldown_until unset or now >= cooldown_until), each of the three windows
\* holds fewer than its limit of calls newer than now - window, and the error
\* rate over the error window is at most the threshold (0 when no events).
C1_CanActIff ==
  last.op = "can_act" =>
    (last.ret <=> /\ (last.cu = None \/ last.at >= last.cu)
                  /\ HistHasCapacity(last.at)
                  /\ ~HistRateExceeds(last.at))

\* can_act() answered true after an earlier cooldown, with calls on record.
C1_Witness ==
  /\ last.op = "can_act" /\ last.ret
  /\ tripAt # None /\ Len(hist) >= 2

\* C2: the can_act() that trips the error-rate threshold sets
\* cooldown_until = now + cooldown_minutes * 60 and returns false; get_stats()
\* reports in_cooldown while the cooldown lasts; every can_act() before
\* cooldown_until returns false whatever was recorded in between; from
\* cooldown_until on the answer is again decided by windows and error rate.
C2_CooldownHolds ==
  LET until == tripAt + cfg.cooldown_minutes * 60
  IN  /\ last.tripped => (~last.ret /\ cooldown_until = last.at + cfg.cooldown_minutes * 60)
      /\ (last.op = "get_stats" /\ tripAt # None /\ last.at < until)
            => last.stats.in_cooldown
      /\ (last.op = "can_act" /\ tripAt # None /\ last.at < until) => ~last.ret
      /\ (last.op = "can_act" /\ tripAt # None /\ last.at >= until)
            => (last.ret <=> (HistHasCapacity(last.at) /\ ~HistRateExceeds(last.at)))

\* can_act() is refused during a cooldown although the errors have aged out
\* of the error window and every rate window has room.
C2_Witness ==
  /\ last.op = "can_act" /\ ~last.ret
  /\ tripAt # None /\ last.at > tripAt
  /\ last.at < tripAt + cfg.cooldown_minutes * 60
  /\ HistHasCapacity(last.at) /\ ~HistRateExceeds(last.at)

\* C3 (as claimed): a can_act() called while the error rate exceeds the
\* threshold returns false and enters cooldown, and every can_act() within
\* cooldown_minutes of it returns false, also when a rate window is full.
C3_ExceedAlwaysCoolsDown ==
  /\ (last.op = "can_act" /\ HistRateExceeds(last.at))
        => (~last.ret /\ cooldown_until # None /\ last.at < cooldown_until)
  /\ (last.op = "can_act" /\ exceedAt # None
        /\ last.at < exceedAt + cfg.cooldown_minutes * 60) => ~last.ret

\* C4: a RateLimiter asked by can_act() answers true exactly when fewer than
\* max_actions recorded calls are newer than now - window_seconds: false
\* after max_actions records inside one window, true again once
\* window_seconds have passed since the oldest of them.
C4_WindowRefill ==
  LET W == [hourly |-> 3600, daily |-> 86400, weekly |-> 604800]
      N == [hourly |-> cfg.hourly_limit, daily |-> cfg.daily_limit,
            weekly |-> cfg.weekly_limit]
  IN  last.op = "can_act" =>
        \A n \in WindowNames :
          /\ (last.rl[n] # "skipped" /\ CountSince(AnyKind, last.at - W[n]) >= N[n])
                => last.rl[n] = "false"
          /\ (last.rl[n] # "skipped" /\ CountSince(AnyKind, last.at - W[n]) < N[n])
                => last.rl[n] = "true"

\* The hourly limiter was filled by exactly hourly_limit records inside one
\* window and answers true at the very second the oldest one expires.
C4_Witness ==
  /\ last.op = "can_act" /\ last.rl["hourly"] = "true"
  /\ Len(hist) = cfg.hourly_limit
  /\ hist[Len(hist)].t < hist[1].t + 3600
  /\ last.at = hist[1].t + 3600

\* C5: record_action() and record_error() each add one timestamp to each of
\* the three windows, record_action only to the success list, record_error
\* only to the error list, and leave cooldown_until alone; after k calls that
\* are all inside every window get_stats() reports max(0, limit - k).
C5_RecordStep ==
  Len(hist') = Len(hist) + 1 =>
    LET k == hist'[Len(hist')].kind
    IN  /\ hourly' = Append(hourly, now)
        /\ daily' = Append(daily, now)
        /\ weekly' = Append(weekly, now)
        /\ k = "success" => (successes' = Append(successes, now) /\ errors' = errors)
        /\ k = "error" => (errors' = Append(errors, now) /\ successes' = successes)
        /\ cooldown_until' = cooldown_until

C5_Remaining ==
  (last.op = "get_stats" /\ CountSince(AnyKind, last.at - 3600) = Len(hist)) =>
    /\ last.stats.hourly_remaining = Max0(cfg.hourly_limit - Len(hist))
    /\ last.stats.daily_remaining = Max0(cfg.daily_limit - Len(hist))
    /\ last.stats.weekly_remaining = Max0(cfg.weekly_limit - Len(hist))

C5_RecordConsumesAllWindows == [][C5_RecordStep]_vars /\ []C5_Remaining

\* get_stats() after recorded calls of both kinds, all inside the hourly
\* window and more than the hourly limit: remaining is clamped at 0.
C5_Witness ==
  /\ last.op = "get_stats" /\ Len(hist) > cfg.hourly_limit
  /\ CountSince(AnyKind, last.at - 3600) = Len(hist)
  /\ CountSince({"error"}, -1) >= 1 /\ CountSince({"success"}, -1) >= 1
  /\ last.stats.hourly_remaining = 0
  /\ last.stats.weekly_remaining = cfg.weekly_limit - Len(hist)

\* C6 (as claimed): with callers that all follow "can_act(); if true, act,
\* then record", the number of unexpired timestamps in a rate window never
\* exceeds the window's max_actions unless some can_act() has returned false.
C6_NeverOverLimitUnrejected ==
  (~rejected /\ ~unguarded) =>
    /\ Len(Prune(hourly, now - 3600)) <= cfg.hourly_limit
    /\ Len(Prune(daily, now - 86400)) <= cfg.daily_limit
    /\ Len(Prune(weekly, now - 604800)) <= cfg.weekly_limit

\* C7 (as claimed): publish_post, publish_comment, get_my_latest_post_url and
\* search_posts navigate the browser only after can_act() has returned true
\* for that action.
C7_NavigateOnlyAfterCanAct ==
  \A t \in Threads :
    (th[t].navigated /\ th[t].fn \in {"publish_post", "publish_comment",
                                      "get_my_latest_post_url", "search_posts"})
      => th[t].permit

\* C8: the public methods of the monitor are critical sections of one lock:
\* two threads are never both between taking and releasing it; while nothing
\* has expired and no record call is under way, every window holds one
\* timestamp per completed record call and the two lists hold them all; and a
\* can_act() that returns true has counted every record call that completed
\* before it started and has not expired.
C8_SeenBy(t, w) ==
  Cardinality({i \in 1..th[t].seen : hist[i].t > now - w})

C8_CriticalSections ==
  /\ \A t \in Threads : \A u \in Threads :
       (t # u) => ~(th[t].pc \in LockedPcs /\ th[u].pc \in LockedPcs)
  /\ ((\A i \in DOMAIN hist : hist[i].t > now - 60)
        /\ (\A t \in Threads : th[t].pc \notin RecordPcs))
       => /\ Len(hourly) = Len(hist)
          /\ Len(daily) = Len(hist)
          /\ Len(weekly) = Len(hist)
          /\ Len(errors) + Len(successes) = Len(hist)
  /\ \A t \in Threads :
       (th[t].pc = "ca_ret" /\ th[t].ret) =>
          /\ C8_SeenBy(t, 3600) < cfg.hourly_limit
          /\ C8_SeenBy(t, 86400) < cfg.daily_limit
          /\ C8_SeenBy(t, 604800) < cfg.weekly_limit

\* A can_act() that started after a record call had completed returns true
\* having counted it, and every window holds that one timestamp.
C8_Witness ==
  \E t \in Threads :
    /\ th[t].pc = "ca_ret" /\ th[t].ret /\ th[t].seen >= 1
    /\ C8_SeenBy(t, 3600) >= 1
    /\ Len(hourly) = Len(hist) /\ Len(weekly) = Len(hist)

\* C9: count() equals the number of distinct item_hash values upserted so
\* far, and no two stored rows share an item_hash; an upsert of an existing
\* item_hash is an update that leaves count() as it was.
C9_CountIsDistinctHashes ==
  /\ Count = Cardinality(upserted)
  /\ \A i \in DOMAIN feed_items : \A j \in DOMAIN feed_items :
       (i # j) => feed_items[i].item_hash # feed_items[j].item_hash
  /\ \A i \in DOMAIN feed_items : feed_items[i].item_hash \in upserted

\* Three upserts, one of them of an item_hash that was already stored.
C9_Witness ==
  /\ nUpserts = 3 /\ lastUp.existed /\ Count = 2

\* C10: an upsert of an existing item_hash changes final_score (to the new
\* value) and fetched_at of that row and nothing else, in no row; title,
\* content, url and the other columns keep the values of the first insert.
C10_UpsertStep ==
  (nUpserts' = nUpserts + 1 /\ lastUp'.args.item_hash \in upserted) =>
    /\ DOMAIN feed_items' = DOMAIN feed_items
    /\ \A i \in DOMAIN feed_items :
         IF feed_items[i].item_hash = lastUp'.args.item_hash
         THEN feed_items'[i] = [feed_items[i] EXCEPT
                                  !.final_score = lastUp'.args.final_score,
                                  !.fetched_at = now]
         ELSE feed_items'[i] = feed_items[i]

C10_FirstValuesKept ==
  \A i \in DOMAIN feed_items :
    \E k \in DOMAIN firstArgs :
      /\ firstArgs[k].item_hash = feed_items[i].item_hash
      /\ firstArgs[k].title = feed_items[i].title
      /\ firstArgs[k].content = feed_items[i].content
      /\ firstArgs[k].url = feed_items[i].url
      /\ firstArgs[k].other = feed_items[i].other

C10_UpsertFrame == [][C10_UpsertStep]_vars /\ []C10_FirstValuesKept

\* A stored item was upserted again, later, with another title, content, url
\* and score, next to a second row.
C10_Witness ==
  /\ lastUp.existed /\ Count = 2
  /\ \E i \in DOMAIN feed_items :
       /\ feed_items[i].item_hash = lastUp.args.item_hash
       /\ feed_items[i].title # lastUp.args.title
       /\ feed_items[i].content # lastUp.args.content
       /\ feed_items[i].url # lastUp.args.url
       /\ feed_items[i].final_score = lastUp.args.final_score
       /\ feed_items[i].fetched_at = lastUp.at /\ lastUp.at > 0
       /\ feed_items[i].saved_to_library = 1

\* C11: a post's status changes only along draft -> approved,
\* approved -> published, draft -> rejected, approved -> rejected and
\* published -> approved.
C11_AllowedEdges ==
  {<<"draft", "approved">>, <<"approved", "published">>,
   <<"draft", "rejected">>, <<"approved", "rejected">>,
   <<"published", "approved">>}

C11_StatusStep ==
  \A i \in DOMAIN posts :
    posts'[i].status # posts[i].status
      => <<posts[i].status, posts'[i].status>> \in C11_AllowedEdges

C11_OnlyAllowedTransitions == [][C11_StatusStep]_vars

\* C12: a post or comment whose status is published has a published_at; the
\* update_status call that publishes stamps published_at with the time of the
\* call, and the one that rejects with a reason stores the reason.
C12_RowsOf(tbl) == IF tbl = "posts" THEN posts ELSE comments

C12_PublishedHasStamp ==
  /\ \A i \in DOMAIN posts :
       posts[i].status = "published" => posts[i].published_at # None
  /\ \A i \in DOMAIN comments :
       comments[i].status = "published" => comments[i].published_at # None
  /\ plast.tbl # "none" =>
       \A i \in DOMAIN C12_RowsOf(plast.tbl) :
         LET row == C12_RowsOf(plast.tbl)[i]
         IN  row.id = plast.id =>
               /\ plast.status = "published" =>
                    (row.status = "published" /\ row.published_at = plast.at)
               /\ (plast.status = "rejected" /\ Truthy(plast.reason)) =>
                    (row.status = "rejected"
                       /\ row.rejection_reason = plast.reason)

\* A post rejected with a reason and later published at a later second than
\* its creation: the row carries the reason and the stamp of the last call.
C12_Witness ==
  /\ plast.tbl = "posts" /\ plast.status = "published" /\ plast.at = 1
  /\ \E i \in DOMAIN posts :
       /\ posts[i].status = "published" /\ posts[i].published_at = 1
       /\ posts[i].rejection_reason = ReasonUI

\* C13: the publish request ends in 404, 400, 502, 500 or success; it sets
\* the status to published only when it ends in success, and writes neither
\* status nor linkedin_url when it ends otherwise.
C13_PublishOutcome ==
  pub.pc = "done" =>
    /\ pub.outcome \in {"404", "400", "502", "500", "ok"}
    /\ pub.outcome # "ok" => pub.wrote = {}

\* C14: after set_feedback(I, H, L), get_feedback_map() maps H to L and the
\* table holds exactly one row for feed_item_id I, with label L; a second
\* set_feedback with the same arguments leaves the stored rows (apart from
\* created_at) as the first left them.
C14_NoTime(rows) ==
  [i \in DOMAIN rows |->
     [feed_item_id |-> rows[i].feed_item_id, item_hash |-> rows[i].item_hash,
      feedback |-> rows[i].feedback]]

C14_RepeatStep ==
  (/\ flast.called
   /\ flast'.id = flast.id /\ flast'.item_hash = flast.item_hash
   /\ flast'.label = flast.label)
    => C14_NoTime(user_feedback') = C14_NoTime(user_feedback)

C14_LastWriteRead ==
  flast.called =>
    /\ flast.item_hash \in DOMAIN GetFeedbackMap(user_feedback)
    /\ GetFeedbackMap(user_feedback)[flast.item_hash] = flast.label
    /\ fmap.read => fmap.map[flast.item_hash] = flast.label
    /\ Cardinality({i \in DOMAIN user_feedback :
                      user_feedback[i].feed_item_id = flast.id}) = 1
    /\ \A i \in DOMAIN user_feedback :
         user_feedback[i].feed_item_id = flast.id
           => user_feedback[i].feedback = flast.label

C15_TrainingData ==
  GetAllTrainingData(user_feedback, feed_items, content_library)

C15_Implicit ==
  {k \in DOMAIN C15_TrainingData :
     k > Len(ExplicitRows(user_feedback, feed_items))}

C15_NoFeedbackRow(id) ==
  \A i \in DOMAIN user_feedback : user_feedback[i].feed_item_id # id

C15_ReadStep == tdata'.read => user_feedback' = user_feedback

C15_ImplicitRows ==
  /\ Len(user_feedback) <= Len(feed_items)
  /\ \A k \in C15_Implicit :
       /\ C15_TrainingData[k].feedback = "liked"
       /\ C15_NoFeedbackRow(C15_TrainingData[k].id)
       /\ C15_TrainingData[k].url # ""
       /\ \E j \in DOMAIN content_library :
            /\ content_library[j].source = C15_TrainingData[k].url
            /\ Truthy(content_library[j].generated_post)

C16_Kept ==
  {k \in DOMAIN rin.items :
     rin.items[k].final_score >= rin.min_score_threshold}

\* Item a of the input is ranked before item b.
C16_Before(a, b) ==
  \/ a.final_score > b.final_score
  \/ a.final_score = b.final_score /\ a.title < b.title

C16_FilterAndRank ==
  rout.done =>
    LET r == rout.ranked
    IN  /\ Len(r) = IF rin.max_results < Cardinality(C16_Kept)
                    THEN rin.max_results ELSE Cardinality(C16_Kept)
        /\ \A k \in DOMAIN r : \E i \in C16_Kept : r[k] = rin.items[i]
        /\ \A k, l \in DOMAIN r : k < l => C16_Before(r[k], r[l])
        /\ \A i \in C16_Kept :
             (\A k \in DOMAIN r : r[k] # rin.items[i])
               => \A k \in DOMAIN r : C16_Before(r[k], rin.items[i])

\* Three items pass the threshold, the first two with equal scores below the
\* third; two are returned.
C16_Witness ==
  /\ rout.done
  /\ Len(rin.items) = 3 /\ rin.max_results = 2
  /\ Cardinality(C16_Kept) = 3
  /\ rin.items[1].final_score = rin.items[2].final_score
  /\ rin.items[3].final_score > rin.items[1].final_score
  /\ rout.ranked = <<rin.items[3], rin.items[1]>>

\* C17: the batch fetch_all / fetch_and_filter returns never holds two items
\* with the same item_hash.
C17_HashOf(x) == ItemHash(x.title, x.url)

C17_NoDuplicateHash ==
  run.pc = "done" =>
    \A k, l \in DOMAIN run.result :
      k # l => C17_HashOf(run.result[k]) # C17_HashOf(run.result[l])

\* C18: a fetch_feed call that reads its time less than 1800 s after the
\* time stored with the cache entry of the url returns the cached items and
\* sends no request; a call at 1800 s or later sends a request and, when the
\* answer parses, the entry holds the new items and the time of this call.
C18_CacheTtl ==
  \A k \in DOMAIN run.log :
    LET e == run.log[k]
    IN  e.before # NoEntry =>
          /\ e.at - e.before.time < 1800
               => ~e.requested /\ e.outcome = "hit" /\ e.items = e.before.items
          /\ e.at - e.before.time >= 1800
               => /\ e.requested
                  /\ e.outcome = "ok"
                       => cache[e.url] = [time |-> e.at, items |-> e.items]

\* One call of fetch_all in which one source is served from an entry 1799 s
\* old and the other, 1800 s old, is fetched again and replaced.
C18_Witness ==
  /\ Len(run.log) = 2
  /\ \E k, l \in DOMAIN run.log :
       /\ run.log[k].before # NoEntry
       /\ run.log[k].at - run.log[k].before.time = 1799
       /\ run.log[k].outcome = "hit"
       /\ run.log[l].before # NoEntry
       /\ run.log[l].at - run.log[l].before.time = 1800
       /\ run.log[l].outcome = "ok"
       /\ run.log[l].items # run.log[l].before.items
       /\ cache[run.log[l].url].time = run.log[l].at

\* C19: fetch_all never ends in an exception of a source; a source whose
\* fetch or parse failed adds nothing, every other source adds its items.
RECURSIVE C19_Contributions(_)
C19_Contributions(log) ==
  IF log = <<>> THEN <<>>
  ELSE (IF Head(log).outcome \in FetchFailures THEN <<>> ELSE Head(log).items)
       \o C19_Contributions(Tail(log))

C19_SourceFailureIsolated ==
  /\ run.pc # "failed"
  /\ run.pc = "done" /\ ~run.filter =>
       /\ Len(run.log) = Len(run.feeds)
       /\ \A k \in DOMAIN run.log : run.log[k].url = run.feeds[k].url
       /\ run.result = C19_Contributions(run.log)

\* Both sources selected, the first fails with an exception, the second
\* answers, and its items are what fetch_all returns.
C19_Witness ==
  /\ run.pc = "done" /\ ~run.filter
  /\ Len(run.log) = 2
  /\ run.log[1].outcome = "raise"
  /\ run.log[2].outcome = "ok"
  /\ run.result = run.log[2].items
  /\ Len(run.result) = 2

\* C20: train() with fewer usable labelled rows than min_training_samples
\* returns status insufficient_data with the number of usable rows and the
\* minimum, raises nothing, and leaves the model, the stats and both files as
\* they were.
C20_Usable(training_data, feedback_map) ==
  Cardinality({k \in DOMAIN training_data :
                 \/ training_data[k].feedback \in {"liked", "disliked"}
                 \/ /\ training_data[k].feedback = Null
                    /\ training_data[k].item_hash \in DOMAIN feedback_map
                    /\ feedback_map[training_data[k].item_hash]
                         \in {"liked", "disliked"}})

C20_Below(call) ==
  /\ call.called
  /\ C20_Usable(call.training_data, call.feedback_map)
       < reranker.min_training_samples

C20_TrainStep ==
  C20_Below(tret)' =>
    /\ reranker' = reranker
    /\ rfiles' = rfiles
    /\ (reranker.model # NoModel) = (reranker'.model # NoModel)

C20_Return ==
  C20_Below(tret) =>
    /\ ~tret.raised
    /\ tret.ret =
         [status |-> "insufficient_data",
          samples |-> C20_Usable(tret.training_data, tret.feedback_map),
          min_required |-> reranker.min_training_samples]

C20_InsufficientData == [][C20_TrainStep]_vars /\ []C20_Return

\* A trained model is in place and a later train() with one row, labelled
\* through feedback_map, is below the minimum of two.
C20_Witness ==
  /\ tret.called /\ tret.ret.status = "insufficient_data"
  /\ tret.ret.samples = 1 /\ tret.ret.min_required = 2
  /\ Len(tret.training_data) = 1
  /\ \A k \in DOMAIN tret.training_data : tret.training_data[k].feedback = Null
  /\ tret.feedback_map # <<>>
  /\ reranker.model # NoModel
  /\ rfiles.model = reranker.model

\* C21: rerank returns a permutation of its input, with or without a model;
\* without a model, or when the prediction raises, the items come back as
\* they were, by non-increasing final_score.
C21_RerankPermutation ==
  rout.done =>
    LET r == rout.ranked
    IN  /\ Len(r) = Len(rin.items)
        /\ \A i \in DOMAIN rin.items :
             Cardinality({k \in DOMAIN r : r[k].title = rin.items[i].title}) = 1
        /\ (~rin.trained \/ rin.prediction.raises) =>
             /\ \A k \in DOMAIN r : \E i \in DOMAIN rin.items : r[k] = rin.items[i]
             /\ \A k, l \in DOMAIN r :
                  k < l => r[k].final_score >= r[l].final_score

\* A trained reranker whose prediction raises, on three items given in
\* ascending order of score.
C21_Witness ==
  /\ rout.done /\ rin.trained /\ rin.prediction.raises
  /\ Len(rin.items) = 3
  /\ rin.items[1].final_score < rin.items[2].final_score
  /\ rin.items[2].final_score < rin.items[3].final_score
  /\ rout.ranked = <<rin.items[3], rin.items[2], rin.items[1]>>

\* C22: at every point of a train() call the file at model_path is a whole
\* model, the previous one or the new one, and never a partly written one.
C22_ModelFileWhole == rfiles.model # PartialModel

\* C23: two score() calls with the same arguments return the same record,
\* whenever and in whichever process they are made.
C23_Deterministic ==
  \A i, j \in DOMAIN scorer.calls :
    (/\ scorer.calls[i].text = scorer.calls[j].text
     /\ scorer.calls[i].published_at = scorer.calls[j].published_at)
      => scorer.calls[i].ret = scorer.calls[j].ret

\* C25: freshness_multiplier is 1.0 without a date that parses and below 30
\* days; from 30 days on it is 1.0 less 0.25 per 30 days beyond the first 30
\* (to the fourth decimal), not below 0.1; 0.1 above 180 days; always within
\* 0.1 and 1.0.
C25_Freshness ==
  \A k \in DOMAIN scorer.calls :
    LET c == scorer.calls[k]
        f == c.ret.freshness_multiplier
        days == c.at
    IN  /\ f >= 1000 /\ f <= 10000
        /\ c.published_at \in {Null, "", "gibberish text"} => f = 10000
        /\ c.published_at = "2024-10-15T12:00:00Z" =>
             /\ days < 30 => f = 10000
             /\ days > 180 => f = 1000
             /\ days >= 30 =>
                  \/ f = 1000 /\ 10000 * (150 - days) <= 1000 * 120 + 60
                  \/ /\ f > 1000
                     /\ 120 * f - 10000 * (150 - days) <= 60
                     /\ 10000 * (150 - days) - 120 * f <= 60

\* An item 90 days old: 1.0 - 2 * 0.25 = 0.5.
C25_Witness ==
  /\ Len(scorer.calls) = 1
  /\ scorer.calls[1].published_at = "2024-10-15T12:00:00Z"
  /\ scorer.calls[1].at = 90
  /\ scorer.calls[1].ret.freshness_multiplier = 5000

\* C24: an update_status that violates the CHECK constraint on status raises
\* to the caller and leaves the table exactly as it was before the call.
C24_FailFast ==
  (/\ tx.tbl # "none"
   /\ tx.status \notin Statuses
   /\ \E i \in DOMAIN tx.before : tx.before[i].id = tx.id)
    => tx.raised /\ tx.after = tx.before

\* An approved post, update_status(id, "archived"): raised, still approved.
C24_Witness ==
  /\ tx.tbl = "posts"
  /\ tx.status = "archived"
  /\ tx.raised
  /\ Len(tx.before) = 1
  /\ tx.before[1].status = "approved"
  /\ posts = tx.before

\* C26: once the records have stopped and while time advances, can_act()
\* returns true again, however often it is polled in between.
C26_EventuallyCanAct == <>[](last.op = "can_act" /\ last.ret)

\* A monitor that tripped into cooldown on a full window, and is polled
\* with success a week later.
C26_Witness ==
  /\ last.op = "can_act" /\ last.ret
  /\ tripAt # None
  /\ Len(hist) >= cfg.hourly_limit
  /\ now >= WeeklyWindow

\* C27: of the publish requests for a post that was approved once, at most
\* one performs the browser publish.
C27_PublishedOnce ==
  \A id \in 1..MaxRows :
    Cardinality({r \in Requests : reqs[r].id = id /\ reqs[r].posted}) <= 1

\* C28: a fetch_feed attempt that fails (the source is unreachable, its body
\* is malformed, or the fetch raises) leaves the cache as it was.
C28_FailedFetchStep ==
  (/\ run.pc = "fetch"
   /\ Len(run'.log) = Len(run.log) + 1
   /\ run'.log[Len(run'.log)].outcome \in FetchFailures)
    => cache' = cache

C28_CacheOnlyAfterSuccess == [][C28_FailedFetchStep]_vars

\* C29: on a tick the callback runs exactly when can_act() returned true
\* (and a callback is set); when it raises, the tick ends with one more
\* error recorded and nothing else changed; when it returns, the monitor is
\* as can_act() left it.
C29_Monitor ==
  Snapshot(hourly, daily, weekly, errors, successes, cooldown_until)

C29_TickContract ==
  LET k == sched.tick
      m == k.after_can_act
  IN  k.job # "none" =>
        /\ k.job \in sched.callbacks => (k.ran <=> k.permitted)
        /\ k.ran <=> k.outcome \in {"running", "returned", "caught"}
        /\ k.outcome \in {"returned", "running", "skipped"} =>
             C29_Monitor = m
        /\ k.outcome = "caught" =>
             /\ Len(errors) = Len(m.errors) + 1
             /\ Len(hourly) = Len(m.hourly) + 1
             /\ Len(daily) = Len(m.daily) + 1
             /\ Len(weekly) = Len(m.weekly) + 1
             /\ successes = m.successes
             /\ cooldown_until = m.cooldown_until

\* A tick whose callback raised, and a later tick that can_act() refused.
C29_Witness ==
  /\ sched.tick.outcome = "skipped"
  /\ sched.tick.job \in sched.callbacks
  /\ ~sched.tick.permitted
  /\ Len(errors) >= 1

\* C30: generate returns the confidence the provider parsed whenever one
\* was reported, and 0.5 only when none was.
C30_ConfidenceKept ==
  gen.pc = "returned" =>
    IF gen.result.reported
    THEN gen.returned = gen.result.confidence
    ELSE gen.returned = DefaultConfidence

====
